---- MODULE Spec2Model ----
(***************************************************************************)
(* A model of the Emphatic scanner (src/apps/Emphatic/Emphatic.h): the     *)
(* bracket-aware scanner ProcessCode, stepped one loop iteration at a      *)
(* time, the type scanner ProcessType, the parameter-list scanner          *)
(* ProcessParams, the concept scanner ProcessConcept and the top-level     *)
(* dispatcher ProcessTop under Process.  Cursor positions are 0-based as   *)
(* in the source; token i of the source is tokens[i + 1].                  *)
(* Further sections model the earlier generator CodeGen                    *)
(* (src/source/Empower/Var.h), the Table widget (src/unnamed/part_000) and *)
(* ConfigManager (src/tools/ConfigManager.h).                              *)
(***************************************************************************)
EXTENDS Integers, Sequences, FiniteSets, TLC

VARIABLES
  tokens,               \* emp::vector<emp::Token> tokens
  pos,                  \* the cursor (size_t & pos)
  pc,                   \* control position of the call being modelled
  start_pos,            \* ProcessCode / ProcessType: const size_t start_pos
  open_symbols,         \* ProcessCode: std::vector<char> open_symbols
  finished,             \* ProcessCode: bool finished
  match_angle_bracket,  \* ProcessCode argument
  multi_line,           \* ProcessCode argument
  text,                 \* the std::string returned by the call
  status,               \* "none" | "ok" | "error" (Error -> exit(1)) | "crash"
  err_pos,              \* the token index handed to Error, -1 if none
  params,               \* ProcessParams: emp::vector<ParamInfo> params
  concept,              \* ProcessConcept: the AST_Concept being filled
  ast_root,             \* AST_Scope ast_root
  scope_depth,          \* ProcessTop calls nested within the outermost one
  iterations,           \* CodeGen: executions of the concept-body loop so far
  row_count,            \* TableInfo: size_t row_count
  col_count,            \* TableInfo: size_t col_count
  rows,                 \* TableInfo: emp::vector<TableRow> rows (rows[r][c])
  handles,              \* the Table objects that share the TableInfo
  widget_status,        \* "none" | "ok" | "assert" (an emp_assert has failed)
  name_map,             \* ConfigManager: std::map<std::string, MANAGED_TYPE *>
  cur_obj,              \* ConfigManager: MANAGED_TYPE * cur_obj
  allocated,            \* objects that new MANAGED_TYPE has returned so far
  deleted,              \* objects that delete has been called on
  invocations,          \* objects that callback_fun has been invoked on
  returned              \* the value of the last CommandCallback call

parser_vars == << tokens, pos, pc, start_pos, open_symbols, finished,
                  match_angle_bracket, multi_line, text, status, err_pos,
                  params, concept, ast_root, scope_depth >>

widget_vars == << row_count, col_count, rows, handles, widget_status >>

manager_vars == << name_map, cur_obj, allocated, deleted, invocations, returned >>

vars == << parser_vars, iterations, widget_vars, manager_vars >>

\* A null pointer.
NULL == 0

\* No Table has been constructed.
NoWidget ==
  /\ row_count = 0
  /\ col_count = 0
  /\ rows = << >>
  /\ handles = << >>
  /\ widget_status = "none"

\* No ConfigManager has been constructed.
NoManager ==
  /\ name_map = << >>
  /\ cur_obj = NULL
  /\ allocated = 0
  /\ deleted = {}
  /\ invocations = {}
  /\ returned = "none"

----------------------------------------------------------------------------
(* Bounds of the model. *)

MaxLen == 4
MaxTypeLen == 4
MaxParamLen == 5
MaxTail == 3
MaxMembers == 2
MaxChunks == 3
MaxStart == 1

----------------------------------------------------------------------------
(* Tokens.  The lexer classifies every token; symbols are single           *)
(* characters, or "::".                                                    *)

Sym(l) == [kind |-> "Symbol", lexeme |-> l]
Id(l)  == [kind |-> "ID", lexeme |-> l]

CodeAlphabet ==
  { Id("a"), Sym(";"), Sym("("), Sym(")"), Sym("{"), Sym("}"), Sym("<"), Sym(">") }

ScenarioUnmatched ==
  << Id("foo"), Sym("("), Id("a"), Sym(","), Id("b"), Sym(")"), Sym(")") >>

ScenarioAngle ==
  << Id("a"), Sym("<"), Id("b"), Sym(";"), Id("c"), Sym(">"), Id("d"), Sym(";") >>

TypeAlphabet ==
  { Id("T"), Id("const"), Id("typename"), Id("template"),
    Sym("<"), Sym(">"), Sym("::"), Sym("&"), Sym("*"), Sym(";"), Sym("(") }

ScenarioTemplate ==
  << Id("Foo"), Sym("<"), Id("Bar"), Sym(">"), Sym("("), Id("x"), Sym(")") >>

ScenarioSemiInArgs ==
  << Id("Foo"), Sym("<"), Id("a"), Sym(";"), Id("b"), Sym(">"), Id("x") >>

Num(l) == [kind |-> "Number", lexeme |-> l]

\* struct ElementInfo, as ProcessConcept creates it for each member
EmptyElement ==
  [name |-> "", type |-> "", params |-> << >>, attributes |-> {},
   default_code |-> "", special_value |-> ""]

\* AST_Concept, as NewChild<AST_Concept>() creates it
EmptyConcept ==
  [name |-> "", base_name |-> "", typedefs |-> << >>, variables |-> << >>,
   functions |-> << >>]

\* AST_Scope ast_root: a scope with no children
EmptyScope == [kind |-> "Scope", name |-> "", children |-> << >>]

ParamAlphabet ==
  { Id("T"), Id("x"), Sym(","), Sym(")"), Sym("&"), Sym(";") }

SeqsUpTo(S, n) == UNION { [1..k -> S] : k \in 0..n }

CodeInputs == SeqsUpTo(CodeAlphabet, MaxLen) \cup {ScenarioUnmatched, ScenarioAngle}

TypeInputs ==
  SeqsUpTo(TypeAlphabet, MaxTypeLen) \cup {ScenarioTemplate, ScenarioSemiInArgs}

ParamInputs == SeqsUpTo(ParamAlphabet, MaxParamLen)

\* Concept sources: a header, a body and a tail.  A body is a few members
\* out of MemberForms, or one member head followed by every short tail.
HeaderForms ==
  { << Id("Fitness"), Sym(":"), Id("Base"), Sym("{") >>,
    << Sym(":"), Id("Base"), Sym("{") >>,
    << Id("Fitness"), Id("Base"), Sym("{") >>,
    << Id("Fitness"), Sym(":"), Sym("{") >>,
    << Id("Fitness"), Sym(":"), Id("Base") >>,
    << Id("Fitness"), Sym("::"), Id("Base"), Sym("{") >> }

TailForms ==
  { << Sym("}"), Sym(";") >>, << Sym("}") >>, << >>, << Sym(";") >>,
    << Sym("}"), Sym("}") >> }

FunHead == << Id("void"), Id("f"), Sym("("), Sym(")") >>
VarHead == << Id("int"), Id("age") >>
UsingHead == << Id("using"), Id("X") >>

MemberForms ==
  { VarHead \o << Sym(";") >>,
    << Id("int"), Id("x"), Sym("="), Num("5"), Sym(";") >>,
    UsingHead \o << Sym("="), Id("int"), Sym(";") >>,
    << Id("double"), Id("GetFitness"), Sym("("), Sym(")"), Sym("="),
       Id("required"), Sym(";") >>,
    FunHead \o << Sym("="), Id("default"), Sym(";") >>,
    FunHead \o << Sym("{"), Id("return"), Sym(";"), Sym("}") >>,
    << Id("void"), Id("g"), Sym("("), Id("T"), Id("x"), Sym(","), Id("T"), Sym(")"),
       Id("const"), Sym("{"), Sym("}") >>,
    UsingHead \o << Sym("="), Id("int") >>,
    FunHead \o << Sym(";") >> }

FunTailAlphabet ==
  { Sym("="), Id("required"), Id("default"), Id("other"), Num("5"),
    Sym(";"), Sym("{"), Sym("}"), Sym(")") }

VarTailAlphabet ==
  { Sym(";"), Sym("="), Id("a"), Sym("("), Sym(")"), Sym("}") }

UsingTailAlphabet == { Sym("="), Id("int"), Sym(";"), Sym("}") }

RECURSIVE Flatten(_)
Flatten(ss) == IF Len(ss) = 0 THEN << >> ELSE ss[1] \o Flatten(Tail(ss))

BodyForms ==
  { Flatten(ms) : ms \in SeqsUpTo(MemberForms, MaxMembers) }
  \cup { FunHead \o t : t \in SeqsUpTo(FunTailAlphabet, MaxTail) }
  \cup { VarHead \o t : t \in SeqsUpTo(VarTailAlphabet, MaxTail) }
  \cup { UsingHead \o t : t \in SeqsUpTo(UsingTailAlphabet, MaxTail) }

ConceptInputs == { h \o b \o t : h \in HeaderForms, b \in BodyForms, t \in TailForms }

PP(l) == [kind |-> "PP", lexeme |-> l]

\* Sources for the top-level dispatcher: a few chunks out of TopChunks, or
\* one of two longer scenarios.
ConceptOpen == << Id("concept"), Id("Fitness"), Sym(":"), Id("Base"), Sym("{") >>

TopChunks ==
  { << PP("#pragma once") >>,
    << Id("using"), Id("X"), Sym("="), Id("int"), Sym(";") >>,
    << Id("using"), Id("X"), Sym("="), Id("int") >>,
    << Id("using"), Id("Foo"), Sym("<") >>,
    << Id("namespace"), Id("A"), Sym("{") >>,
    << Id("namespace"), Sym("{") >>,
    << Sym("}") >>,
    << Sym("}"), Sym(";") >>,
    << Id("class"), Id("C"), Sym("{"), Id("a"), Sym(";"), Sym("}"), Sym(";") >>,
    << Id("struct"), Sym("{") >>,
    << Id("class"), Id("C") >>,
    ConceptOpen \o << Id("int"), Id("age"), Sym(";"), Sym("}"), Sym(";") >>,
    ConceptOpen \o << Id("void"), Id("f"), Sym("(") >>,
    ConceptOpen \o << Id("int"), Id("x"), Sym("="), Sym("{"), Sym(";"), Sym("}"), Sym(";") >>,
    << Id("concept") >>,
    << Id("foo") >>,
    << Sym(";") >> }

ScenarioConcept ==
  ConceptOpen
  \o << Id("double"), Id("GetFitness"), Sym("("), Sym(")"), Sym("="), Id("required"),
        Sym(";"), Id("int"), Id("age"), Sym(";"), Sym("}"), Sym(";") >>

ScenarioNamespaces ==
  << Id("namespace"), Id("A"), Sym("{"), Id("namespace"), Id("B"), Sym("{"),
     Id("using"), Id("X"), Sym("="), Id("int"), Sym(";"), Sym("}"), Sym("}") >>

TopInputs ==
  { Flatten(cs) : cs \in SeqsUpTo(TopChunks, MaxChunks) }
  \cup {ScenarioConcept, ScenarioNamespaces}

----------------------------------------------------------------------------
(* Helper functions of class Emphatic. *)

NoChar == ""

HasToken(toks, p) == (p >= 0) /\ (p < Len(toks))

IsSymbol(tok) == tok.kind = "Symbol"

IsID(toks, p) == HasToken(toks, p) /\ toks[p + 1].kind = "ID"

IsPP(toks, p) == HasToken(toks, p) /\ toks[p + 1].kind = "PP"

\* lexeme[0] of a symbol token
FirstChar(l) == IF l = "::" THEN ":" ELSE l

AsChar(toks, p) ==
  IF HasToken(toks, p) /\ IsSymbol(toks[p + 1])
  THEN FirstChar(toks[p + 1].lexeme)
  ELSE NoChar

AsLexeme(toks, p) == IF HasToken(toks, p) THEN toks[p + 1].lexeme ELSE ""

Separator_Leading(i, s) == IF i >= s THEN " " ELSE ""

\* if (i > start_pos) ss << " ";
Separator(i, s) == IF i > s THEN " " ELSE ""

RECURSIVE ConcatFrom(_, _, _, _)
ConcatFrom(toks, s, i, e) ==
  IF i >= e THEN ""
  ELSE Separator(i, s) \o toks[i + 1].lexeme \o ConcatFrom(toks, s, i + 1, e)

ConcatLexemes(toks, s, e) == ConcatFrom(toks, s, s, e)

----------------------------------------------------------------------------
(* ProcessCode: one iteration of its while loop, as a function of the      *)
(* loop state [pos, open_symbols, finished].                               *)

SemiFinishes_Always(ml) == TRUE

\* case ';': if (multi_line == false) finished = true;
SemiFinishes(ml) == (ml = FALSE)

IsOpenSymbol_AngleAlways(c, mab) == c \in {"(", "[", "{", "<"}

\* case '<' (only if match_angle_bracket), '(', '[', '{'
IsOpenSymbol(c, mab) == c \in {"(", "[", "{"} \/ (c = "<" /\ mab)

\* case '>' (only if match_angle_bracket), ')', ']', '}'
IsCloseSymbol(c, mab) == c \in {")", "]", "}"} \/ (c = ">" /\ mab)

Matches(o, c) ==
  \/ (o = "(" /\ c = ")")
  \/ (o = "[" /\ c = "]")
  \/ (o = "{" /\ c = "}")
  \/ (o = "<" /\ c = ">")

CanPop_Checked(open, c) == Len(open) > 0 /\ Matches(open[Len(open)], c)

\* if (open_symbols.size())  -- the closer is not compared with the opener
CanPop(open, c) == Len(open) > 0

PopBack(open) == SubSeq(open, 1, Len(open) - 1)

UnmatchedPos_NoRewind(p) == p

\* pos--;  (p is the cursor after the pos++ of this iteration)
UnmatchedPos(p) == p - 1

CodeStep(toks, s, mab, ml) ==
  LET cur_char == AsChar(toks, s.pos)
      p        == s.pos + 1
  IN  IF cur_char = ";"
      THEN [pos |-> p, open_symbols |-> s.open_symbols,
            finished |-> IF SemiFinishes(ml) THEN TRUE ELSE s.finished]
      ELSE IF IsOpenSymbol(cur_char, mab)
      THEN [pos |-> p, open_symbols |-> Append(s.open_symbols, cur_char),
            finished |-> s.finished]
      ELSE IF IsCloseSymbol(cur_char, mab)
      THEN IF CanPop(s.open_symbols, cur_char)
           THEN [pos |-> p, open_symbols |-> PopBack(s.open_symbols),
                 finished |-> s.finished]
           ELSE [pos |-> UnmatchedPos(p), open_symbols |-> s.open_symbols,
                 finished |-> TRUE]
      ELSE [pos |-> p, open_symbols |-> s.open_symbols, finished |-> s.finished]

LoopCond_Short(toks, s) == ~s.finished /\ s.pos + 1 < Len(toks)

\* while (!finished && pos < tokens.size())
LoopCond(toks, s) == ~s.finished /\ s.pos < Len(toks)

RECURSIVE CodeLoop(_, _, _, _)
CodeLoop(toks, s, mab, ml) ==
  IF LoopCond(toks, s) THEN CodeLoop(toks, CodeStep(toks, s, mab, ml), mab, ml)
  ELSE s

\* The whole call: the cursor at return and the returned text.
ProcessCode(toks, p, mab, ml) ==
  LET s == CodeLoop(toks, [pos |-> p, open_symbols |-> << >>, finished |-> FALSE],
                    mab, ml)
  IN  [pos |-> s.pos, text |-> ConcatLexemes(toks, p, s.pos)]

----------------------------------------------------------------------------
(* The scanner stepped through a ProcessCode call. *)

LoopState == [pos |-> pos, open_symbols |-> open_symbols, finished |-> finished]

InitCode ==
  /\ tokens \in CodeInputs
  /\ pos \in 0..Len(tokens)
  /\ pc = "idle"
  /\ start_pos = 0
  /\ open_symbols = << >>
  /\ finished = FALSE
  /\ match_angle_bracket = FALSE
  /\ multi_line = FALSE
  /\ text = ""
  /\ status = "none"
  /\ err_pos = -1
  /\ params = << >>
  /\ concept = EmptyConcept
  /\ ast_root = EmptyScope
  /\ scope_depth = 0
  /\ iterations = 0
  /\ NoWidget
  /\ NoManager

ProcessCodeCall ==
  /\ pc = "idle"
  /\ \E mab \in BOOLEAN, ml \in BOOLEAN :
       /\ match_angle_bracket' = mab
       /\ multi_line' = ml
  /\ start_pos' = pos
  /\ open_symbols' = << >>
  /\ finished' = FALSE
  /\ pc' = "code_loop"
  /\ UNCHANGED << tokens, pos, text, status, err_pos, params, concept,
                  ast_root, scope_depth, iterations,
                  widget_vars, manager_vars >>

ProcessCodeIter ==
  /\ pc = "code_loop"
  /\ LoopCond(tokens, LoopState)
  /\ LET n == CodeStep(tokens, LoopState, match_angle_bracket, multi_line)
     IN  /\ pos' = n.pos
         /\ open_symbols' = n.open_symbols
         /\ finished' = n.finished
  /\ UNCHANGED << tokens, pc, start_pos, match_angle_bracket, multi_line,
                  text, status, err_pos, params, concept,
                  ast_root, scope_depth, iterations,
                  widget_vars, manager_vars >>

ProcessCodeReturn ==
  /\ pc = "code_loop"
  /\ ~LoopCond(tokens, LoopState)
  /\ text' = ConcatLexemes(tokens, start_pos, pos)
  /\ status' = "ok"
  /\ pc' = "done"
  /\ UNCHANGED << tokens, pos, start_pos, open_symbols, finished,
                  match_angle_bracket, multi_line, err_pos, params, concept,
                  ast_root, scope_depth, iterations,
                  widget_vars, manager_vars >>

NextCode == ProcessCodeCall \/ ProcessCodeIter \/ ProcessCodeReturn

SpecCode == InitCode /\ [][NextCode]_vars

----------------------------------------------------------------------------
(* ProcessType.  The result is [status, pos, err_pos, text]: status "ok"   *)
(* on return, "error" when Error is called (the process exits), "crash"    *)
(* when the run is ended by a failed bounds assertion or a fault.          *)

\* tokens[pos] with pos >= tokens.size() is undefined: a bounds-checked
\* emp::vector aborts the run ("abort"); an unchecked one hands some string
\* to the message and the run goes on to RequireID ("garbage").
OOBOutcomes == {"abort", "garbage"}

Failed(st, p, e) == [status |-> st, pos |-> p, err_pos |-> e, text |-> ""]

\* ProcessCode(++pos, true): multi_line keeps its default, false.
TemplateArgs(toks, p) == ProcessCode(toks, p, TRUE, FALSE)

\* The while (need_id) loop, entered with the cursor at p.
RECURSIVE TypeName(_, _, _)
TypeName(toks, p, oob) ==
  LET p1 == IF AsLexeme(toks, p) = "typename" THEN p + 1 ELSE p
      p2 == IF AsLexeme(toks, p1) = "template" THEN p1 + 1 ELSE p1
  IN  IF ~HasToken(toks, p2) /\ oob = "abort" THEN Failed("crash", p2, -1)
      ELSE IF ~IsID(toks, p2) THEN Failed("error", p2, p2)
      ELSE
        LET p3 == p2 + 1
            is_template == AsLexeme(toks, p3) = "<"
            args_end == TemplateArgs(toks, p3 + 1).pos
            p4 == IF is_template THEN args_end + 1 ELSE p3
        IN  IF is_template /\ AsChar(toks, args_end) # ">"
            THEN Failed("error", args_end + 1, args_end)
            ELSE IF AsLexeme(toks, p4) = "::"
            THEN TypeName(toks, p4 + 1, oob)
            ELSE [status |-> "ok", pos |-> p4, err_pos |-> -1, text |-> ""]

ProcessType(toks, p, oob) ==
  LET p0 == IF AsLexeme(toks, p) = "const" THEN p + 1 ELSE p
      r  == TypeName(toks, p0, oob)
      pa == IF AsLexeme(toks, r.pos) = "&" THEN r.pos + 1 ELSE r.pos
      pb == IF AsLexeme(toks, pa) = "*" THEN pa + 1 ELSE pa
  IN  IF r.status # "ok" THEN r
      ELSE [status |-> "ok", pos |-> pb, err_pos |-> -1,
            text |-> ConcatLexemes(toks, p, pb)]

InitType ==
  /\ tokens \in TypeInputs
  /\ pos \in 0..Len(tokens)
  /\ pc = "idle"
  /\ start_pos = 0
  /\ open_symbols = << >>
  /\ finished = FALSE
  /\ match_angle_bracket = FALSE
  /\ multi_line = FALSE
  /\ text = ""
  /\ status = "none"
  /\ err_pos = -1
  /\ params = << >>
  /\ concept = EmptyConcept
  /\ ast_root = EmptyScope
  /\ scope_depth = 0
  /\ iterations = 0
  /\ NoWidget
  /\ NoManager

ProcessTypeCall ==
  /\ pc = "idle"
  /\ \E oob \in OOBOutcomes :
       LET r == ProcessType(tokens, pos, oob)
       IN  /\ pos' = r.pos
           /\ status' = r.status
           /\ err_pos' = r.err_pos
           /\ text' = r.text
  /\ start_pos' = pos
  /\ pc' = "type_done"
  /\ UNCHANGED << tokens, open_symbols, finished, match_angle_bracket, multi_line,
                  params, concept,
                  ast_root, scope_depth, iterations,
                  widget_vars, manager_vars >>

NextType == ProcessTypeCall

SpecType == InitType /\ [][NextType]_vars

----------------------------------------------------------------------------
(* ProcessParams.  One iteration of its while loop takes the cursor and    *)
(* the parameters collected so far to [status, pos, err_pos, params].      *)

NeedsComma_Never(ps) == FALSE

\* if (params.size()) RequireChar(',', pos++, ...)
NeedsComma(ps) == Len(ps) > 0

AddParam_Front(ps, info) == << info >> \o ps

\* params.emplace_back(ParamInfo{type_name, identifier});
AddParam(ps, info) == Append(ps, info)

\* The rest of an iteration once the type t has been scanned.
ParamTyped(toks, ps, t) ==
  LET has_id == IsID(toks, t.pos)
      id_lexeme == IF has_id THEN toks[t.pos + 1].lexeme ELSE ""
      p2 == IF has_id THEN t.pos + 1 ELSE t.pos
  IN  IF t.status # "ok"
      THEN [status |-> t.status, pos |-> t.pos, err_pos |-> t.err_pos, params |-> ps]
      ELSE [status |-> "ok", pos |-> p2, err_pos |-> -1,
            params |-> AddParam(ps, [type_name |-> t.text, identifier |-> id_lexeme])]

ParamStep(toks, p, ps, oob) ==
  IF NeedsComma(ps) /\ AsChar(toks, p) # ","
  THEN [status |-> "error", pos |-> p + 1, err_pos |-> p, params |-> ps]
  ELSE ParamTyped(toks, ps,
                  ProcessType(toks, IF NeedsComma(ps) THEN p + 1 ELSE p, oob))

\* while (AsChar(pos) != ')')
ParamsCond(toks, p) == AsChar(toks, p) # ")"

\* The whole call.  Every iteration that does not fail moves the cursor
\* forward, and a cursor at the token count fails in ProcessType.
RECURSIVE ParamsLoop(_, _, _, _)
RECURSIVE ParamsNext(_, _, _)
ParamsNext(toks, r, oob) ==
  IF r.status = "ok" THEN ParamsLoop(toks, r.pos, r.params, oob) ELSE r

ParamsLoop(toks, p, ps, oob) ==
  IF ParamsCond(toks, p)
  THEN ParamsNext(toks, ParamStep(toks, p, ps, oob), oob)
  ELSE [status |-> "ok", pos |-> p, err_pos |-> -1, params |-> ps]

ProcessParams(toks, p, oob) == ParamsLoop(toks, p, << >>, oob)

InitParams ==
  /\ tokens \in ParamInputs
  /\ pos \in 0..Len(tokens)
  /\ pc = "idle"
  /\ start_pos = 0
  /\ open_symbols = << >>
  /\ finished = FALSE
  /\ match_angle_bracket = FALSE
  /\ multi_line = FALSE
  /\ text = ""
  /\ status = "none"
  /\ err_pos = -1
  /\ params = << >>
  /\ concept = EmptyConcept
  /\ ast_root = EmptyScope
  /\ scope_depth = 0
  /\ iterations = 0
  /\ NoWidget
  /\ NoManager

ProcessParamsCall ==
  /\ pc = "idle"
  /\ pc' = "params_loop"
  /\ start_pos' = pos
  /\ params' = << >>
  /\ UNCHANGED << tokens, pos, open_symbols, finished, match_angle_bracket,
                  multi_line, text, status, err_pos, concept,
                  ast_root, scope_depth, iterations,
                  widget_vars, manager_vars >>

\* The effect of one iteration with result r on the state.
ParamsEffect(r) ==
  /\ pos' = r.pos
  /\ params' = r.params
  /\ status' = IF r.status = "ok" THEN status ELSE r.status
  /\ err_pos' = r.err_pos
  /\ pc' = IF r.status = "ok" THEN "params_loop" ELSE "params_done"

ProcessParamsIter ==
  /\ pc = "params_loop"
  /\ ParamsCond(tokens, pos)
  /\ \E oob \in OOBOutcomes : ParamsEffect(ParamStep(tokens, pos, params, oob))
  /\ UNCHANGED << tokens, start_pos, open_symbols, finished, match_angle_bracket,
                  multi_line, text, concept,
                  ast_root, scope_depth, iterations,
                  widget_vars, manager_vars >>

ProcessParamsReturn ==
  /\ pc = "params_loop"
  /\ ~ParamsCond(tokens, pos)
  /\ status' = "ok"
  /\ pc' = "params_done"
  /\ UNCHANGED << tokens, pos, start_pos, open_symbols, finished,
                  match_angle_bracket, multi_line, text, err_pos, params, concept,
                  ast_root, scope_depth, iterations,
                  widget_vars, manager_vars >>

NextParams == ProcessParamsCall \/ ProcessParamsIter \/ ProcessParamsReturn

SpecParams == InitParams /\ [][NextParams]_vars

----------------------------------------------------------------------------
(* ProcessIDList and ProcessConcept.  ProcessConcept is taken in steps:    *)
(* the header, one step per member of the body, and the closing "};".      *)

\* while (IsID(pos)) { ids.insert(AsLexeme(pos)); pos++; }
RECURSIVE ProcessIDList(_, _, _)
ProcessIDList(toks, p, ids) ==
  IF IsID(toks, p) THEN ProcessIDList(toks, p + 1, ids \cup {AsLexeme(toks, p)})
  ELSE [pos |-> p, ids |-> ids]

\* A step that ends in Error(e, ...) with the cursor at p.
MemberError(p, e) ==
  [status |-> "error", pos |-> p, err_pos |-> e, kind |-> "none", elem |-> EmptyElement]

\* A step ended by a failure inside ProcessType or ProcessParams.
MemberFailed(r) ==
  [status |-> r.status, pos |-> r.pos, err_pos |-> r.err_pos, kind |-> "none",
   elem |-> EmptyElement]

MemberDone(p, k, e) ==
  [status |-> "ok", pos |-> p, err_pos |-> -1, kind |-> k, elem |-> e]

IsSpecial_Any(fun_assign) == TRUE

IsSpecial_RequiredOnly(fun_assign) == fun_assign = "required"

\* if (fun_assign == "required" || fun_assign == "default")
IsSpecial(fun_assign) == fun_assign \in {"required", "default"}

BodyScan_SingleLine(toks, p) == ProcessCode(toks, p, FALSE, FALSE)

\* ProcessCode(pos, false, true): the body of a function defined in place
BodyScan(toks, p) == ProcessCode(toks, p, FALSE, TRUE)

\* ProcessCode(pos): the code of a using or of a variable's default value
StatementScan(toks, p) == ProcessCode(toks, p, FALSE, FALSE)

\* A function defined in place, once its body has been scanned.
FunctionBody(toks, f, body) ==
  IF AsChar(toks, body.pos) # "}" THEN MemberError(body.pos, body.pos)
  ELSE MemberDone(body.pos + 1, "function", [f EXCEPT !.default_code = body.text])

\* The function branch from char fun_char = AsChar(pos++), met at q.
FunctionTail(toks, f, q) ==
  LET fun_char == AsChar(toks, q)
      fun_assign == AsLexeme(toks, q + 1)
  IN  IF fun_char = "="
      THEN IF ~IsID(toks, q + 1) THEN MemberError(q + 1, q + 1)
           ELSE IF ~IsSpecial(fun_assign) THEN MemberError(q + 2, q + 2)
           ELSE IF AsChar(toks, q + 2) # ";" THEN MemberError(q + 3, q + 2)
           ELSE MemberDone(q + 3, "function", [f EXCEPT !.special_value = fun_assign])
      ELSE IF fun_char = "{" THEN FunctionBody(toks, f, BodyScan(toks, q + 1))
      ELSE MemberError(q + 1, q)

\* The function branch once the attribute identifiers l have been read.
FunctionAttributes(toks, f, l) ==
  FunctionTail(toks, [f EXCEPT !.attributes = l.ids], l.pos)

\* The function branch once the parameters pr have been read.
FunctionParams(toks, e, pr) ==
  IF pr.status # "ok" THEN MemberFailed(pr)
  ELSE IF AsChar(toks, pr.pos) # ")" THEN MemberError(pr.pos + 1, pr.pos)
  ELSE FunctionAttributes(toks, [e EXCEPT !.params = pr.params],
                          ProcessIDList(toks, pr.pos + 1, {}))

\* The function branch, entered with the cursor p just past the '('.
FunctionMember(toks, p, e, oob) == FunctionParams(toks, e, ProcessParams(toks, p, oob))

\* The using branch once the code c after the '=' has been scanned.
UsingCode(t, c) ==
  MemberDone(c.pos, "typedef", [EmptyElement EXCEPT !.name = t.text, !.type = c.text])

\* The using branch once the new type name t has been scanned.
UsingTyped(toks, t) ==
  IF t.status # "ok" THEN MemberFailed(t)
  ELSE IF AsChar(toks, t.pos) # "=" THEN MemberError(t.pos + 1, t.pos)
  ELSE UsingCode(t, StatementScan(toks, t.pos + 1))

\* The using branch, entered with the cursor p just past "using".
UsingMember(toks, p, oob) ==
  IF ~IsID(toks, p) THEN MemberError(p, p)
  ELSE UsingTyped(toks, ProcessType(toks, p, oob))

IsFunction_Never(toks, p) == FALSE

\* if (AsChar(pos) == '(')
IsFunction(toks, p) == AsChar(toks, p) = "("

\* A variable with a default value, once its code c has been scanned.
VariableCode(e, c) ==
  MemberDone(c.pos, "variable", [e EXCEPT !.default_code = c.text])

\* The function-or-variable branch once the type t has been scanned.
DeclaredTyped(toks, t, oob) ==
  LET e == [EmptyElement EXCEPT !.type = t.text, !.name = AsLexeme(toks, t.pos)]
      q == t.pos + 1
  IN  IF t.status # "ok" THEN MemberFailed(t)
      ELSE IF ~IsID(toks, t.pos) THEN MemberError(t.pos, t.pos)
      ELSE IF IsFunction(toks, q) THEN FunctionMember(toks, q + 1, e, oob)
      ELSE IF AsChar(toks, q) = ";" THEN MemberDone(q + 1, "variable", e)
      ELSE VariableCode(e, StatementScan(toks, q))

\* The function-or-variable branch, entered with the cursor p on the member.
DeclaredMember(toks, p, oob) == DeclaredTyped(toks, ProcessType(toks, p, oob), oob)

\* One iteration of while (AsChar(pos) != '}'), entered with the cursor p.
ConceptMember(toks, p, oob) ==
  IF ~IsID(toks, p) THEN MemberError(p, p)
  ELSE IF toks[p + 1].lexeme = "using" THEN UsingMember(toks, p + 1, oob)
  ELSE DeclaredMember(toks, p, oob)

AddMember_Front(c, k, e) ==
  IF k = "typedef" THEN [c EXCEPT !.typedefs = << e >> \o @]
  ELSE IF k = "function" THEN [c EXCEPT !.functions = << e >> \o @]
  ELSE [c EXCEPT !.variables = << e >> \o @]

AddMember_Swapped(c, k, e) ==
  IF k = "typedef" THEN [c EXCEPT !.typedefs = Append(@, e)]
  ELSE IF k = "function" THEN [c EXCEPT !.variables = Append(@, e)]
  ELSE [c EXCEPT !.functions = Append(@, e)]

\* concept.typedefs / functions / variables .push_back(new_element)
AddMember(c, k, e) ==
  IF k = "typedef" THEN [c EXCEPT !.typedefs = Append(@, e)]
  ELSE IF k = "function" THEN [c EXCEPT !.functions = Append(@, e)]
  ELSE [c EXCEPT !.variables = Append(@, e)]

\* The header: name, ':', base-class name, '{'.
ConceptHeader(toks, p) ==
  LET h(st, q, e) == [status |-> st, pos |-> q, err_pos |-> e,
                      name |-> AsLexeme(toks, p), base_name |-> AsLexeme(toks, p + 2)]
  IN  IF ~IsID(toks, p) THEN h("error", p, p)
      ELSE IF AsChar(toks, p + 1) # ":" THEN h("error", p + 2, p + 1)
      ELSE IF ~IsID(toks, p + 2) THEN h("error", p + 2, p + 2)
      ELSE IF AsChar(toks, p + 3) # "{" THEN h("error", p + 4, p + 3)
      ELSE h("ok", p + 4, -1)

ConceptClose_NoSemi(toks, p) == [status |-> "ok", pos |-> p + 1, err_pos |-> -1]

\* pos++ (skip the closing brace); RequireChar(';', pos++, ...)
ConceptClose(toks, p) ==
  IF AsChar(toks, p + 1) # ";"
  THEN [status |-> "error", pos |-> p + 2, err_pos |-> p + 1]
  ELSE [status |-> "ok", pos |-> p + 2, err_pos |-> -1]

\* while (AsChar(pos) != '}')
BodyCond(toks, p) == AsChar(toks, p) # "}"

InitConcept ==
  /\ tokens \in ConceptInputs
  /\ pos = 0
  /\ pc = "idle"
  /\ start_pos = 0
  /\ open_symbols = << >>
  /\ finished = FALSE
  /\ match_angle_bracket = FALSE
  /\ multi_line = FALSE
  /\ text = ""
  /\ status = "none"
  /\ err_pos = -1
  /\ params = << >>
  /\ concept = EmptyConcept
  /\ ast_root = EmptyScope
  /\ scope_depth = 0
  /\ iterations = 0
  /\ NoWidget
  /\ NoManager

\* The fields of the concept assigned before the header failed at h.err_pos:
\* the name once the token at p is an identifier, the base-class name once
\* the token at p + 2 is one.
HeaderAssigned(c, h, p) ==
  IF h.err_pos > p + 2 THEN [c EXCEPT !.name = h.name, !.base_name = h.base_name]
  ELSE IF h.err_pos > p THEN [c EXCEPT !.name = h.name]
  ELSE c

\* The effect of the header with result h on the state.
HeaderEffect(h) ==
  /\ pos' = h.pos
  /\ err_pos' = h.err_pos
  /\ IF h.status = "ok"
     THEN /\ concept' = [concept EXCEPT !.name = h.name, !.base_name = h.base_name]
          /\ pc' = "concept_body"
          /\ status' = status
     ELSE /\ concept' = HeaderAssigned(concept, h, pos)
          /\ pc' = "concept_done"
          /\ status' = "error"

ProcessConceptCall ==
  /\ pc = "idle"
  /\ HeaderEffect(ConceptHeader(tokens, pos))
  /\ start_pos' = pos
  /\ UNCHANGED << tokens, open_symbols, finished, match_angle_bracket, multi_line,
                  text, params,
                  ast_root, scope_depth, iterations,
                  widget_vars, manager_vars >>

\* The effect of one member step with result r on the state.
MemberEffect(r) ==
  /\ pos' = r.pos
  /\ err_pos' = r.err_pos
  /\ IF r.status = "ok"
     THEN /\ concept' = AddMember(concept, r.kind, r.elem)
          /\ pc' = "concept_body"
          /\ status' = status
     ELSE /\ concept' = concept
          /\ pc' = "concept_done"
          /\ status' = r.status

ProcessConceptMember ==
  /\ pc = "concept_body"
  /\ BodyCond(tokens, pos)
  /\ \E oob \in OOBOutcomes : MemberEffect(ConceptMember(tokens, pos, oob))
  /\ UNCHANGED << tokens, start_pos, open_symbols, finished, match_angle_bracket,
                  multi_line, text, params,
                  ast_root, scope_depth, iterations,
                  widget_vars, manager_vars >>

\* The effect of the closing "};" with result r on the state.
CloseEffect(r) ==
  /\ pos' = r.pos
  /\ err_pos' = r.err_pos
  /\ status' = r.status

ProcessConceptClose ==
  /\ pc = "concept_body"
  /\ ~BodyCond(tokens, pos)
  /\ CloseEffect(ConceptClose(tokens, pos))
  /\ pc' = "concept_done"
  /\ UNCHANGED << tokens, start_pos, open_symbols, finished, match_angle_bracket,
                  multi_line, text, params, concept,
                  ast_root, scope_depth, iterations,
                  widget_vars, manager_vars >>

NextConcept == ProcessConceptCall \/ ProcessConceptMember \/ ProcessConceptClose

SpecConcept == InitConcept /\ [][NextConcept]_vars

----------------------------------------------------------------------------
(* ProcessConcept as one call, as ProcessTop makes it.                     *)

ConceptResult(r, c) ==
  [status |-> r.status, pos |-> r.pos, err_pos |-> r.err_pos, concept |-> c]

RECURSIVE ConceptBody(_, _, _, _)
RECURSIVE ConceptBodyNext(_, _, _, _)
ConceptBodyNext(toks, c, r, oob) ==
  IF r.status = "ok" THEN ConceptBody(toks, r.pos, AddMember(c, r.kind, r.elem), oob)
  ELSE ConceptResult(r, c)

\* The member loop and the closing "};", entered with the cursor p.
ConceptBody(toks, p, c, oob) ==
  IF BodyCond(toks, p) THEN ConceptBodyNext(toks, c, ConceptMember(toks, p, oob), oob)
  ELSE ConceptResult(ConceptClose(toks, p), c)

ConceptAfterHeader(toks, p, h, oob) ==
  IF h.status = "ok"
  THEN ConceptBody(toks, h.pos,
                   [EmptyConcept EXCEPT !.name = h.name, !.base_name = h.base_name], oob)
  ELSE ConceptResult(h, HeaderAssigned(EmptyConcept, h, p))

ProcessConcept(toks, p, oob) == ConceptAfterHeader(toks, p, ConceptHeader(toks, p), oob)

----------------------------------------------------------------------------
(* ProcessTop under Process.  One step takes one statement of the scope    *)
(* being processed; a namespace statement enters a nested ProcessTop call  *)
(* and the end of its loop returns to the namespace branch of the caller.  *)
(* The scope being filled is reached from ast_root through the last child, *)
(* scope_depth times.                                                      *)

\* Process: size_t pos; is read without having been set.  Any start value
\* at or past the token count ends the outermost loop at once.
StartPositions(toks) == { p \in 0..Len(toks) : p <= MaxStart \/ p = Len(toks) }

\* cur_scope.NewChild<T>(): the new node becomes the last child of the scope
RECURSIVE NewChild(_, _, _)
NewChild(scope, d, node) ==
  IF d = 0 THEN [scope EXCEPT !.children = Append(@, node)]
  ELSE [scope EXCEPT !.children[Len(scope.children)] = NewChild(@, d - 1, node)]

PPNode(code) == [kind |-> "PP", code |-> code]

ClassNode(type, name, body) ==
  [kind |-> "Class", type |-> type, name |-> name, body |-> body]

NamespaceNode(name) == [kind |-> "Namespace", name |-> name, children |-> << >>]

UsingNode(name, type) == [kind |-> "Using", name |-> name, type |-> type]

ConceptNode(c) ==
  [kind |-> "Concept", name |-> c.name, base_name |-> c.base_name,
   typedefs |-> c.typedefs, variables |-> c.variables, functions |-> c.functions]

\* What one statement does: how it ended, the cursor, the nodes it created
\* in the scope and whether it entered a nested scope.
Statement(st, p, e, ns, o) ==
  [status |-> st, pos |-> p, err_pos |-> e, nodes |-> ns, opens |-> o]

PPStatement_SkipNext(toks, p) ==
  Statement("ok", p + 2, -1, << PPNode(AsLexeme(toks, p) \o "\n") >>, FALSE)

\* new_node.code = emp::to_string( AsLexeme(pos++), '\n')
PPStatement(toks, p) ==
  Statement("ok", p + 1, -1, << PPNode(AsLexeme(toks, p) \o "\n") >>, FALSE)

ClassScan_SingleLine(toks, p) == ProcessCode(toks, p, FALSE, FALSE)

\* new_class.body = ProcessCode(pos, false, true)
ClassScan(toks, p) == ProcessCode(toks, p, FALSE, TRUE)

\* The class branch once the body b has been scanned.
ClassBody(toks, type, name, b) ==
  IF AsChar(toks, b.pos) # "}"
  THEN Statement("error", b.pos + 1, b.pos, << ClassNode(type, name, b.text) >>, FALSE)
  ELSE IF AsChar(toks, b.pos + 1) # ";"
  THEN Statement("error", b.pos + 2, b.pos + 1, << ClassNode(type, name, b.text) >>, FALSE)
  ELSE Statement("ok", b.pos + 2, -1, << ClassNode(type, name, b.text) >>, FALSE)

\* The class branch from the '{' required at p.
ClassNamed(toks, p, type, name) ==
  IF AsChar(toks, p) # "{"
  THEN Statement("error", p + 1, p, << ClassNode(type, name, "") >>, FALSE)
  ELSE ClassBody(toks, type, name, ClassScan(toks, p + 1))

\* The struct / class branch, entered with the cursor p past the keyword.
ClassStatement(toks, p, type) ==
  IF IsID(toks, p) THEN ClassNamed(toks, p + 1, type, AsLexeme(toks, p))
  ELSE ClassNamed(toks, p, type, "")

NamespaceNamed_SameScope(toks, p, name) ==
  IF AsChar(toks, p) # "{"
  THEN Statement("error", p + 1, p, << NamespaceNode(name) >>, FALSE)
  ELSE Statement("ok", p + 1, -1, << NamespaceNode(name) >>, FALSE)

\* The namespace branch from the '{' required at p, up to the nested call.
NamespaceNamed(toks, p, name) ==
  IF AsChar(toks, p) # "{"
  THEN Statement("error", p + 1, p, << NamespaceNode(name) >>, FALSE)
  ELSE Statement("ok", p + 1, -1, << NamespaceNode(name) >>, TRUE)

NamespaceStatement(toks, p) ==
  IF IsID(toks, p) THEN NamespaceNamed(toks, p + 1, AsLexeme(toks, p))
  ELSE NamespaceNamed(toks, p, "")

\* new_using.type = ProcessCode(pos)
TopUsingScan(toks, p) == ProcessCode(toks, p, FALSE, FALSE)

TopUsingCode(t, c) ==
  Statement("ok", c.pos, -1, << UsingNode(t.text, c.text) >>, FALSE)

\* The using branch once the new type name t has been scanned.
TopUsingTyped(toks, t) ==
  IF t.status # "ok"
  THEN Statement(t.status, t.pos, t.err_pos, << UsingNode("", "") >>, FALSE)
  ELSE IF AsChar(toks, t.pos) # "="
  THEN Statement("error", t.pos + 1, t.pos, << UsingNode(t.text, "") >>, FALSE)
  ELSE TopUsingCode(t, TopUsingScan(toks, t.pos + 1))

\* The using branch, entered with the cursor p past the keyword.
UsingStatement(toks, p, oob) ==
  IF ~IsID(toks, p) THEN Statement("error", p, p, << >>, FALSE)
  ELSE TopUsingTyped(toks, ProcessType(toks, p, oob))

ConceptParsed(r) ==
  Statement(r.status, r.pos, r.err_pos, << ConceptNode(r.concept) >>, FALSE)

\* The concept branch, entered with the cursor p past the keyword.
ConceptStatement(toks, p, oob) == ConceptParsed(ProcessConcept(toks, p, oob))

\* Error( pos-1, "Unknown keyword ..." ), the cursor p being past the keyword
UnknownStatement(p) == Statement("error", p, p - 1, << >>, FALSE)

TopLoopCond_NoBrace(toks, p) == p < Len(toks)

\* while (pos < tokens.size() && AsChar(pos) != '}')
TopLoopCond(toks, p) == p < Len(toks) /\ AsChar(toks, p) # "}"

AfterStatement_Continue(st) == "top_loop"

\* Error ends the run (exit(1)); otherwise the loop goes on.
AfterStatement(st) == IF st = "ok" THEN "top_loop" ELSE "top_done"

\* The effect of a statement with result r on the state.
StatementEffect(r) ==
  /\ pos' = r.pos
  /\ err_pos' = r.err_pos
  /\ status' = IF r.status = "ok" THEN status ELSE r.status
  /\ pc' = AfterStatement(r.status)
  /\ ast_root' = IF Len(r.nodes) > 0 THEN NewChild(ast_root, scope_depth, r.nodes[1])
                 ELSE ast_root
  /\ scope_depth' = IF r.opens THEN scope_depth + 1 ELSE scope_depth

InitTop ==
  /\ tokens \in TopInputs
  /\ pos = 0
  /\ pc = "idle"
  /\ start_pos = 0
  /\ open_symbols = << >>
  /\ finished = FALSE
  /\ match_angle_bracket = FALSE
  /\ multi_line = FALSE
  /\ text = ""
  /\ status = "none"
  /\ err_pos = -1
  /\ params = << >>
  /\ concept = EmptyConcept
  /\ ast_root = EmptyScope
  /\ scope_depth = 0
  /\ iterations = 0
  /\ NoWidget
  /\ NoManager

\* void Process() { size_t pos; ProcessTop(pos, ast_root); }
Process ==
  /\ pc = "idle"
  /\ \E p \in StartPositions(tokens) : pos' = p /\ start_pos' = p
  /\ pc' = "top_loop"
  /\ UNCHANGED << tokens, open_symbols, finished, match_angle_bracket, multi_line,
                  text, status, err_pos, params, concept, ast_root, scope_depth, iterations,
                  widget_vars, manager_vars >>

InTop == pc = "top_loop" /\ TopLoopCond(tokens, pos)

TopUnchanged ==
  UNCHANGED << tokens, start_pos, open_symbols, finished, match_angle_bracket,
               multi_line, text, params, concept, iterations,
               widget_vars, manager_vars >>

TopPP ==
  /\ InTop
  /\ IsPP(tokens, pos)
  /\ StatementEffect(PPStatement(tokens, pos))
  /\ TopUnchanged

\* RequireID(pos, "Statements in outer scope must begin with ...")
TopRequireID ==
  /\ InTop
  /\ ~IsPP(tokens, pos)
  /\ ~IsID(tokens, pos)
  /\ StatementEffect(Statement("error", pos, pos, << >>, FALSE))
  /\ TopUnchanged

\* std::string cur_lexeme = AsLexeme(pos++);
TopKeyword(kws) == InTop /\ IsID(tokens, pos) /\ AsLexeme(tokens, pos) \in kws

TopConcept ==
  /\ TopKeyword({"concept"})
  /\ \E oob \in OOBOutcomes : StatementEffect(ConceptStatement(tokens, pos + 1, oob))
  /\ TopUnchanged

TopClass ==
  /\ TopKeyword({"struct", "class"})
  /\ StatementEffect(ClassStatement(tokens, pos + 1, AsLexeme(tokens, pos)))
  /\ TopUnchanged

TopNamespace ==
  /\ TopKeyword({"namespace"})
  /\ StatementEffect(NamespaceStatement(tokens, pos + 1))
  /\ TopUnchanged

TopUsing ==
  /\ TopKeyword({"using"})
  /\ \E oob \in OOBOutcomes : StatementEffect(UsingStatement(tokens, pos + 1, oob))
  /\ TopUnchanged

TopUnknown ==
  /\ InTop
  /\ IsID(tokens, pos)
  /\ AsLexeme(tokens, pos) \notin {"concept", "struct", "class", "namespace", "using"}
  /\ StatementEffect(UnknownStatement(pos + 1))
  /\ TopUnchanged

NamespaceEnd_Stay(toks, p) ==
  IF AsChar(toks, p) # "}" THEN Statement("error", p + 1, p, << >>, FALSE)
  ELSE Statement("ok", p, -1, << >>, FALSE)

\* The nested ProcessTop returns to the namespace branch:
\* RequireChar('}', pos++, "The end of a namespace must have a close brace")
NamespaceEnd(toks, p) ==
  IF AsChar(toks, p) # "}" THEN Statement("error", p + 1, p, << >>, FALSE)
  ELSE Statement("ok", p + 1, -1, << >>, FALSE)

TopNamespaceEnd ==
  /\ pc = "top_loop"
  /\ ~TopLoopCond(tokens, pos)
  /\ scope_depth > 0
  /\ pos' = NamespaceEnd(tokens, pos).pos
  /\ err_pos' = NamespaceEnd(tokens, pos).err_pos
  /\ status' = IF NamespaceEnd(tokens, pos).status = "ok" THEN status ELSE "error"
  /\ pc' = AfterStatement(NamespaceEnd(tokens, pos).status)
  /\ scope_depth' = scope_depth - 1
  /\ ast_root' = ast_root
  /\ TopUnchanged

\* The outermost ProcessTop returns and Process with it.
ProcessReturn ==
  /\ pc = "top_loop"
  /\ ~TopLoopCond(tokens, pos)
  /\ scope_depth = 0
  /\ pc' = "top_done"
  /\ status' = "ok"
  /\ UNCHANGED << tokens, pos, start_pos, open_symbols, finished, match_angle_bracket,
                  multi_line, text, err_pos, params, concept, ast_root, scope_depth, iterations,
                  widget_vars, manager_vars >>

NextTop ==
  \/ Process
  \/ TopPP
  \/ TopRequireID
  \/ TopConcept
  \/ TopClass
  \/ TopNamespace
  \/ TopUsing
  \/ TopUnknown
  \/ TopNamespaceEnd
  \/ ProcessReturn

SpecTop == InitTop /\ [][NextTop]_vars

----------------------------------------------------------------------------
(* The Table widget (src/unnamed/part_000): one TableInfo and the Table    *)
(* objects that refer to it.  Rows and columns are 0-based as in the       *)
(* source and rows[r][c] stands for rows[r].data[c].  The build is the one *)
(* in which emp_assert and the bounds checks of emp::vector are active: a  *)
(* failed assertion or an index outside a vector ends the run              *)
(* (widget_status "assert").  Styles, attributes and listeners are left    *)
(* out, and so are the row and column groups.                              *)

MaxRows == 2
MaxCols == 1
MaxHandles == 2
MaxText == 1

\* No parser is running.
NoParser ==
  /\ tokens = << >>
  /\ pos = 0
  /\ pc = "none"
  /\ start_pos = 0
  /\ open_symbols = << >>
  /\ finished = FALSE
  /\ match_angle_bracket = FALSE
  /\ multi_line = FALSE
  /\ text = ""
  /\ status = "none"
  /\ err_pos = -1
  /\ params = << >>
  /\ concept = EmptyConcept
  /\ ast_root = EmptyScope
  /\ scope_depth = 0
  /\ iterations = 0

Handles == 1..MaxHandles

\* The values drawn for the size_t arguments.
RowArgs == 0..MaxRows
ColArgs == 0..MaxCols
SpanArgs == 1..MaxRows

\* enum state_t { TABLE, ROW, CELL, COL, COL_GROUP, ROW_GROUP }
States == {"TABLE", "ROW", "CELL", "COL", "COL_GROUP", "ROW_GROUP"}

RowStates == {"CELL", "ROW", "ROW_GROUP"}
ColStates == {"CELL", "COL", "COL_GROUP"}

\* struct TableData as constructed
TableData ==
  [colspan |-> 1, rowspan |-> 1, header |-> FALSE, masked |-> FALSE, children |-> << >>]

\* A cell that Resize has added: AddChild(r, c, Text(""))
NewCell == [TableData EXCEPT !.children = << "" >>]

HasCell(r, c) == r < row_count /\ c < col_count

\* TableInfo::Resize: the cells after the call.
InfoResize(new_rows, new_cols) ==
  [r \in 0..(new_rows - 1) |->
     [c \in 0..(new_cols - 1) |-> IF HasCell(r, c) THEN rows[r][c] ELSE NewCell]]

\* TableInfo::ClearCell(row_id, col_id) applied to the cells rs.
InfoClearCell(rs, row_id, col_id) == [rs EXCEPT ![row_id][col_id] = TableData]

\* TableInfo::ClearRowCells(row_id), also the cells after ClearRow(row_id).
InfoClearRowCells(rs, row_id) ==
  [rs EXCEPT ![row_id] = [c \in 0..(col_count - 1) |-> TableData]]

\* TableInfo::ClearTableCells()
InfoClearTableCells == [r \in 0..(row_count - 1) |-> [c \in 0..(col_count - 1) |-> TableData]]

\* TableInfo::GetTextWidget(r, c) << text
AppendText(rs, r, c, t) ==
  LET ch == rs[r][c].children
  IN  [rs EXCEPT ![r][c].children =
         IF Len(ch) = 0 THEN << t >> ELSE [ch EXCEPT ![Len(ch)] = @ \o t]]

\* The text of the cell can take one more character within the bound.
CanAppend(r, c) ==
  HasCell(r, c) => \A i \in 1..Len(rows[r][c].children) : rows[r][c].children[i] = ""

WidgetParked == NoParser /\ NoManager

WidgetRest == UNCHANGED << parser_vars, iterations, manager_vars >>

\* A failed emp_assert (or vector bounds check) ends the run.
AssertFails ==
  /\ widget_status' = "assert"
  /\ UNCHANGED << row_count, col_count, rows, handles >>

\* Table(size_t r, size_t c) and copies of it (Table(const Table &)).
InitTable ==
  /\ row_count \in 1..MaxRows
  /\ col_count \in 1..MaxCols
  /\ rows = [r \in 0..(row_count - 1) |-> [c \in 0..(col_count - 1) |-> NewCell]]
  /\ handles = [h \in Handles |-> [cur_row |-> 0, cur_col |-> 0, state |-> "TABLE"]]
  /\ widget_status = "ok"
  /\ WidgetParked

\* The state of the TableInfo after Resize(r, c).
Resized(r, c) ==
  /\ rows' = InfoResize(r, c)
  /\ row_count' = r
  /\ col_count' = c
  /\ widget_status' = "ok"

Rows(h, r) ==
  /\ widget_status = "ok"
  /\ Resized(r, col_count)
  /\ handles' = [handles EXCEPT ![h].cur_row = IF @ >= r THEN 0 ELSE @]
  /\ WidgetRest

Cols(h, c) ==
  /\ widget_status = "ok"
  /\ Resized(row_count, c)
  /\ handles' = [handles EXCEPT ![h].cur_col = IF @ >= c THEN 0 ELSE @]
  /\ WidgetRest

Resize(h, r, c) ==
  /\ widget_status = "ok"
  /\ Resized(r, c)
  /\ handles' = [handles EXCEPT ![h].cur_row = IF @ >= r THEN 0 ELSE @,
                                ![h].cur_col = IF @ >= c THEN 0 ELSE @]
  /\ WidgetRest

\* Table::ClearTable(): TableInfo::ClearTable() is Resize(0,0)
ClearTable(h) ==
  /\ widget_status = "ok"
  /\ Resized(0, 0)
  /\ UNCHANGED handles
  /\ WidgetRest

\* The cells become rs; sizes and handles stay.
CellsBecome(rs) ==
  /\ rows' = rs
  /\ UNCHANGED << row_count, col_count, handles, widget_status >>

Clear(h) ==
  LET t == handles[h]
  IN  /\ widget_status = "ok"
      /\ IF t.state = "TABLE" THEN Resized(0, 0) /\ UNCHANGED handles
         ELSE IF t.state = "ROW"
         THEN IF t.cur_row < row_count
              THEN CellsBecome(InfoClearRowCells(rows, t.cur_row))
              ELSE AssertFails
         ELSE IF t.state = "CELL"
         THEN IF HasCell(t.cur_row, t.cur_col)
              THEN CellsBecome(InfoClearCell(rows, t.cur_row, t.cur_col))
              ELSE AssertFails
         ELSE AssertFails
      /\ WidgetRest

ClearCells(h) ==
  LET t == handles[h]
  IN  /\ widget_status = "ok"
      /\ IF t.state = "TABLE" THEN CellsBecome(InfoClearTableCells)
         ELSE IF t.state = "ROW"
         THEN IF t.cur_row < row_count
              THEN CellsBecome(InfoClearRowCells(rows, t.cur_row))
              ELSE AssertFails
         ELSE IF t.state = "CELL"
         THEN IF HasCell(t.cur_row, t.cur_col)
              THEN CellsBecome(InfoClearCell(rows, t.cur_row, t.cur_col))
              ELSE AssertFails
         ELSE AssertFails
      /\ WidgetRest

\* The assertion of Get*(r, c) and Set*Active(r, c) for the component st.
FocusOK(st, r, c) ==
  /\ st \in RowStates => r < row_count
  /\ st \in ColStates => c < col_count

\* The row, column and state of the component st at (r, c): a row has
\* column 0 and a column has row 0.
Focus(st, r, c) ==
  [cur_row |-> IF st \in RowStates THEN r ELSE 0,
   cur_col |-> IF st \in ColStates THEN c ELSE 0,
   state |-> st]

\* k = h.GetCell(r, c), GetRow(r), GetCol(c), GetRowGroup(r), GetColGroup(c)
\* or GetTable(), by the component st: the Table returned is stored in k.
GetComponent(h, k, st, r, c) ==
  /\ widget_status = "ok"
  /\ IF st = "TABLE"
     THEN /\ handles' = [handles EXCEPT ![k] = [handles[h] EXCEPT !.state = "TABLE"]]
          /\ UNCHANGED << row_count, col_count, rows, widget_status >>
     ELSE IF FocusOK(st, r, c)
     THEN /\ handles' = [handles EXCEPT ![k] = Focus(st, r, c)]
          /\ UNCHANGED << row_count, col_count, rows, widget_status >>
     ELSE AssertFails
  /\ WidgetRest

\* SetCellActive(r, c), SetRowActive(r), SetColActive(c), SetRowGroupActive(r),
\* SetColGroupActive(c) or SetTableActive(), by the component st.
SetActive(h, st, r, c) ==
  /\ widget_status = "ok"
  /\ IF st = "TABLE"
     THEN /\ handles' = [handles EXCEPT ![h].state = "TABLE"]
          /\ UNCHANGED << row_count, col_count, rows, widget_status >>
     ELSE IF FocusOK(st, r, c)
     THEN /\ handles' = [handles EXCEPT ![h] = Focus(st, r, c)]
          /\ UNCHANGED << row_count, col_count, rows, widget_status >>
     ELSE AssertFails
  /\ WidgetRest

\* The effect of SetHeader(_h) through the Table t on the cells rs.
HeaderSet(t, rs, _h) ==
  IF t.state = "CELL" /\ HasCell(t.cur_row, t.cur_col)
  THEN CellsBecome([rs EXCEPT ![t.cur_row][t.cur_col].header = _h])
  ELSE AssertFails

SetHeader(h, _h) ==
  /\ widget_status = "ok"
  /\ HeaderSet(handles[h], rows, _h)
  /\ WidgetRest

\* GetCell(r,c) << text;
AddText(h, r, c, t) ==
  /\ widget_status = "ok"
  /\ CanAppend(r, c)
  /\ IF HasCell(r, c) THEN CellsBecome(AppendText(rows, r, c, t)) ELSE AssertFails
  /\ WidgetRest

\* GetCell(r,c) << text; SetHeader();
AddHeader(h, r, c, t) ==
  /\ widget_status = "ok"
  /\ CanAppend(r, c)
  /\ IF HasCell(r, c) THEN HeaderSet(handles[h], AppendText(rows, r, c, t), TRUE)
     ELSE AssertFails
  /\ WidgetRest

NextTable ==
  \/ \E h \in Handles, r \in RowArgs : Rows(h, r)
  \/ \E h \in Handles, c \in ColArgs : Cols(h, c)
  \/ \E h \in Handles, r \in RowArgs, c \in ColArgs : Resize(h, r, c)
  \/ \E h \in Handles : ClearTable(h)
  \/ \E h \in Handles : Clear(h)
  \/ \E h \in Handles : ClearCells(h)
  \/ \E h \in Handles, k \in Handles, st \in States, r \in RowArgs, c \in ColArgs :
       GetComponent(h, k, st, r, c)
  \/ \E h \in Handles, st \in States, r \in RowArgs, c \in ColArgs :
       SetActive(h, st, r, c)
  \/ \E h \in Handles, _h \in BOOLEAN : SetHeader(h, _h)
  \/ \E h \in Handles, r \in RowArgs, c \in ColArgs : AddText(h, r, c, "x")
  \/ \E h \in Handles, r \in RowArgs, c \in ColArgs : AddHeader(h, r, c, "x")

SpecTable == InitTable /\ [][NextTable]_vars

----------------------------------------------------------------------------
(* Row and column spans of the Table widget.                               *)

MaxSpanCols == 2

SpanColArgs == 0..MaxSpanCols
ColSpanArgs == 1..MaxSpanCols

\* Info()->rows[row].data[col].masked = v for the rows R and the columns C.
MaskCells(rs, R, C, v) ==
  [r \in DOMAIN rs |->
     [c \in DOMAIN rs[r] |->
        IF r \in R /\ c \in C THEN [rs[r][c] EXCEPT !.masked = v] ELSE rs[r][c]]]

\* The two loops of SetRowSpan / SetColSpan index only cells of the table.
LoopsInside(R, C) == R = {} \/ C = {} \/ \A r \in R, c \in C : HasCell(r, c)

\* The state == CELL branch of SetRowSpan for the Table t on the cells rs.
RowSpanCells(t, rs, new_span) ==
  LET old_span == rs[t.cur_row][t.cur_col].rowspan
      col_span == rs[t.cur_row][t.cur_col].colspan
      C == t.cur_col..(t.cur_col + col_span - 1)
  IN  MaskCells(MaskCells([rs EXCEPT ![t.cur_row][t.cur_col].rowspan = new_span],
                          (t.cur_row + old_span)..(t.cur_row + new_span - 1), C, TRUE),
                (t.cur_row + new_span)..(t.cur_row + old_span - 1), C, FALSE)

RowSpanInside(t, rs, new_span) ==
  /\ HasCell(t.cur_row, t.cur_col)
  /\ LoopsInside(
       (t.cur_row + rs[t.cur_row][t.cur_col].rowspan)..(t.cur_row + new_span - 1)
       \cup (t.cur_row + new_span)..(t.cur_row + rs[t.cur_row][t.cur_col].rowspan - 1),
       t.cur_col..(t.cur_col + rs[t.cur_row][t.cur_col].colspan - 1))

\* The state == CELL branch of SetColSpan for the Table t on the cells rs.
ColSpanCells(t, rs, new_span) ==
  LET old_span == rs[t.cur_row][t.cur_col].colspan
      row_span == rs[t.cur_row][t.cur_col].rowspan
      R == t.cur_row..(t.cur_row + row_span - 1)
  IN  MaskCells(MaskCells([rs EXCEPT ![t.cur_row][t.cur_col].colspan = new_span],
                          R, (t.cur_col + old_span)..(t.cur_col + new_span - 1), TRUE),
                R, (t.cur_col + new_span)..(t.cur_col + old_span - 1), FALSE)

ColSpanInside(t, rs, new_span) ==
  /\ HasCell(t.cur_row, t.cur_col)
  /\ LoopsInside(
       t.cur_row..(t.cur_row + rs[t.cur_row][t.cur_col].rowspan - 1),
       (t.cur_col + rs[t.cur_row][t.cur_col].colspan)..(t.cur_col + new_span - 1)
       \cup (t.cur_col + new_span)..(t.cur_col + rs[t.cur_row][t.cur_col].colspan - 1))

\* The row-group branch changes row_groups alone, which the model leaves out.
SetRowSpan(h, new_span) ==
  LET t == handles[h]
  IN  /\ widget_status = "ok"
      /\ IF t.cur_row + new_span > row_count \/ t.state \notin {"CELL", "ROW_GROUP"}
         THEN AssertFails
         ELSE IF t.state = "ROW_GROUP" THEN CellsBecome(rows)
         ELSE IF RowSpanInside(t, rows, new_span)
         THEN CellsBecome(RowSpanCells(t, rows, new_span))
         ELSE AssertFails
      /\ WidgetRest

SetColSpan(h, new_span) ==
  LET t == handles[h]
  IN  /\ widget_status = "ok"
      /\ IF t.cur_col + new_span > col_count \/ t.state \notin {"CELL", "COL_GROUP"}
         THEN AssertFails
         ELSE IF t.state = "COL_GROUP" THEN CellsBecome(rows)
         ELSE IF ColSpanInside(t, rows, new_span)
         THEN CellsBecome(ColSpanCells(t, rows, new_span))
         ELSE AssertFails
      /\ WidgetRest

\* SetSpan(row_span, col_span): SetRowSpan(row_span); SetColSpan(col_span);
SetSpan(h, row_span, col_span) ==
  LET t == handles[h]
  IN  /\ widget_status = "ok"
      /\ IF /\ t.state = "CELL"
            /\ t.cur_row + row_span <= row_count
            /\ t.cur_col + col_span <= col_count
            /\ RowSpanInside(t, rows, row_span)
            /\ ColSpanInside(t, RowSpanCells(t, rows, row_span), col_span)
         THEN CellsBecome(ColSpanCells(t, RowSpanCells(t, rows, row_span), col_span))
         ELSE AssertFails
      /\ WidgetRest

\* Table::ClearCell(r, c)
ClearCell(h, r, c) ==
  /\ widget_status = "ok"
  /\ IF HasCell(r, c) THEN CellsBecome(InfoClearCell(rows, r, c)) ELSE AssertFails
  /\ WidgetRest

\* Table::ClearRow(r)
ClearRow(h, r) ==
  /\ widget_status = "ok"
  /\ IF r < row_count THEN CellsBecome(InfoClearRowCells(rows, r)) ELSE AssertFails
  /\ WidgetRest

\* Table(size_t r, size_t c); the spans are set through the first Table.
InitSpan ==
  /\ row_count \in 1..MaxRows
  /\ col_count \in 1..MaxSpanCols
  /\ rows = [r \in 0..(row_count - 1) |-> [c \in 0..(col_count - 1) |-> NewCell]]
  /\ handles = [h \in Handles |-> [cur_row |-> 0, cur_col |-> 0, state |-> "TABLE"]]
  /\ widget_status = "ok"
  /\ WidgetParked

NextSpan ==
  \/ \E r \in RowArgs, c \in SpanColArgs : SetActive(1, "CELL", r, c)
  \/ \E n \in SpanArgs : SetRowSpan(1, n)
  \/ \E n \in ColSpanArgs : SetColSpan(1, n)
  \/ \E n \in SpanArgs, m \in ColSpanArgs : SetSpan(1, n, m)
  \/ \E r \in RowArgs, c \in SpanColArgs : ClearCell(1, r, c)
  \/ \E r \in RowArgs : ClearRow(1, r)
  \/ \E r \in RowArgs, c \in SpanColArgs : Resize(1, r, c)

SpecSpan == InitSpan /\ [][NextSpan]_vars

----------------------------------------------------------------------------
(* ConfigManager (src/tools/ConfigManager.h).  An object is the number of  *)
(* the new-expression that made it; name_map is a function from the names  *)
(* in use to objects.                                                      *)

MaxObjects == 3

ObjectNames == {"a", "b"}

Commands == {"nopA"}

\* ConfigManager(...): cur_obj(NULL), an empty name_map
InitManager == NoParser /\ NoWidget /\ NoManager

ManagerRest == UNCHANGED << parser_vars, iterations, widget_vars >>

NewObject_KeepCurrent(obj_name) ==
  /\ allocated < MaxObjects
  /\ deleted' = IF obj_name \in DOMAIN name_map
                THEN deleted \cup {name_map[obj_name]} ELSE deleted
  /\ allocated' = allocated + 1
  /\ cur_obj' = IF cur_obj = NULL THEN allocated + 1 ELSE cur_obj
  /\ name_map' = (obj_name :> (allocated + 1)) @@ name_map
  /\ UNCHANGED << invocations, returned >>
  /\ ManagerRest

NewObject(obj_name) ==
  /\ allocated < MaxObjects
  /\ deleted' = IF obj_name \in DOMAIN name_map
                THEN deleted \cup {name_map[obj_name]} ELSE deleted
  /\ allocated' = allocated + 1
  /\ cur_obj' = allocated + 1
  /\ name_map' = (obj_name :> (allocated + 1)) @@ name_map
  /\ UNCHANGED << invocations, returned >>
  /\ ManagerRest

UseObject(obj_name) ==
  /\ cur_obj' = IF obj_name \in DOMAIN name_map THEN name_map[obj_name] ELSE cur_obj
  /\ UNCHANGED << name_map, allocated, deleted, invocations, returned >>
  /\ ManagerRest

\* return callback_fun(*cur_obj, command): the callback returns either value.
CommandCallback(command) ==
  /\ IF cur_obj = NULL
     THEN returned' = "false" /\ UNCHANGED invocations
     ELSE /\ invocations' = invocations \cup {cur_obj}
          /\ returned' \in {"true", "false"}
  /\ UNCHANGED << name_map, cur_obj, allocated, deleted >>
  /\ ManagerRest

NextManager ==
  \/ \E n \in ObjectNames : NewObject(n)
  \/ \E n \in ObjectNames : UseObject(n)
  \/ \E c \in Commands : CommandCallback(c)

SpecManager == InitManager /\ [][NextManager]_vars

----------------------------------------------------------------------------
(* The earlier generator CodeGen (src/source/Empower/Var.h).  Its helpers  *)
(* HasToken, IsID and AsChar are those of Emphatic, a token of the lexer's *)
(* "Other" class being a Symbol.                                           *)

MaxGenLen == 6
MaxIterations == 2

GenAlphabet == { Id("concept"), Id("Base"), Sym(":"), Sym("{"), Sym("}") }

GenInputs == SeqsUpTo(GenAlphabet, MaxGenLen)

\* A loop that never ends and has no side effect is undefined: the build
\* either keeps executing it ("spin") or has dropped it ("elided").
SpinOutcomes == {"spin", "elided"}

\* AST_Concept as constructed
GenConcept == [name |-> "", base_name |-> ""]

\* ProcessConcept up to its loop, entered with the cursor p: the names it
\* has assigned and whether Error has ended the run.
GenHeader(toks, p) ==
  IF ~IsID(toks, p)
  THEN [status |-> "error", pos |-> p, name |-> "", base_name |-> ""]
  ELSE IF AsChar(toks, p + 1) # ":"
  THEN [status |-> "error", pos |-> p + 1, name |-> toks[p + 1].lexeme, base_name |-> ""]
  ELSE IF ~IsID(toks, p + 2)
  THEN [status |-> "error", pos |-> p + 2, name |-> toks[p + 1].lexeme, base_name |-> ""]
  ELSE IF AsChar(toks, p + 3) # "{"
  THEN [status |-> "error", pos |-> p + 3, name |-> toks[p + 1].lexeme,
        base_name |-> toks[p + 3].lexeme]
  ELSE [status |-> "ok", pos |-> p + 4, name |-> toks[p + 1].lexeme,
        base_name |-> toks[p + 3].lexeme]

InitGen ==
  /\ tokens \in GenInputs
  /\ pos = 0
  /\ pc = "idle"
  /\ start_pos = 0
  /\ open_symbols = << >>
  /\ finished = FALSE
  /\ match_angle_bracket = FALSE
  /\ multi_line = FALSE
  /\ text = ""
  /\ status = "none"
  /\ err_pos = -1
  /\ params = << >>
  /\ concept = EmptyConcept
  /\ ast_root = [children |-> << >>]
  /\ scope_depth = 0
  /\ iterations = 0
  /\ NoWidget
  /\ NoManager

GenRest ==
  UNCHANGED << tokens, start_pos, open_symbols, finished, match_angle_bracket,
               multi_line, text, err_pos, params, concept, scope_depth,
               widget_vars, manager_vars >>

\* ProcessTop(size_t pos=0)
CodeGenCall ==
  /\ pc = "idle"
  /\ pc' = "gen_top"
  /\ UNCHANGED << pos, status, ast_root, iterations >>
  /\ GenRest

\* The concept branch of ProcessTop with the header h of the concept.
GenConceptEffect(h) ==
  /\ ast_root' = [ast_root EXCEPT !.children =
                    Append(@, [GenConcept EXCEPT !.name = h.name,
                                                 !.base_name = h.base_name])]
  /\ pos' = h.pos
  /\ status' = IF h.status = "ok" THEN status ELSE "error"
  /\ pc' = IF h.status = "ok" THEN "gen_body" ELSE "gen_done"

\* One iteration of the loop of ProcessTop, up to the loop of ProcessConcept.
CodeGenTop ==
  /\ pc = "gen_top"
  /\ pos < Len(tokens)
  /\ IF IsID(tokens, pos) /\ tokens[pos + 1].lexeme = "concept"
     THEN GenConceptEffect(GenHeader(tokens, pos + 1))
     ELSE /\ status' = "error"
          /\ pc' = "gen_done"
          /\ UNCHANGED << pos, ast_root >>
  /\ UNCHANGED iterations
  /\ GenRest

\* while ( AsChar(pos) != '{' ) { }
CodeGenBody ==
  /\ pc = "gen_body"
  /\ AsChar(tokens, pos) # "{"
  /\ \E o \in SpinOutcomes :
       IF o = "spin"
       THEN /\ iterations < MaxIterations
            /\ iterations' = iterations + 1
            /\ pc' = pc
       ELSE /\ iterations' = iterations
            /\ pc' = "gen_top"
  /\ UNCHANGED << pos, status, ast_root >>
  /\ GenRest

\* The loop condition is false: return pos;
CodeGenBodyEnd ==
  /\ pc = "gen_body"
  /\ AsChar(tokens, pos) = "{"
  /\ pc' = "gen_top"
  /\ UNCHANGED << pos, status, ast_root, iterations >>
  /\ GenRest

CodeGenReturn ==
  /\ pc = "gen_top"
  /\ pos >= Len(tokens)
  /\ pc' = "gen_done"
  /\ status' = "ok"
  /\ UNCHANGED << pos, ast_root, iterations >>
  /\ GenRest

NextGen == CodeGenCall \/ CodeGenTop \/ CodeGenBody \/ CodeGenBodyEnd \/ CodeGenReturn

SpecGen == InitGen /\ [][NextGen]_vars

----------------------------------------------------------------------------
(* Reference definitions used to state the properties of ProcessCode.      *)

\* The symbol character of token i, "" when token i is no symbol.
SymAt(toks, i) ==
  IF i >= 0 /\ i < Len(toks) /\ toks[i + 1].kind = "Symbol"
  THEN toks[i + 1].lexeme ELSE ""

Openers(mab) == {"(", "[", "{"} \cup (IF mab THEN {"<"} ELSE {})
Closers(mab) == {")", "]", "}"} \cup (IF mab THEN {">"} ELSE {})

\* The number of tokens with index in a .. b-1 whose symbol is in S.
CountIn(toks, a, b, S) == Cardinality({ i \in a..(b - 1) : SymAt(toks, i) \in S })

\* Token i is a closer that the openers before it (from s) do not cover.
IsSurplus(toks, s, i, mab) ==
  /\ SymAt(toks, i) \in Closers(mab)
  /\ CountIn(toks, s, i + 1, Closers(mab)) > CountIn(toks, s, i, Openers(mab))

FirstSurplus(toks, s, mab) ==
  LET S == { i \in s..(Len(toks) - 1) : IsSurplus(toks, s, i, mab) }
  IN  IF S = {} THEN Len(toks) ELSE CHOOSE i \in S : \A j \in S : i <= j

RECURSIVE JoinSpaces(_)
JoinSpaces(ls) ==
  IF Len(ls) = 0 THEN ""
  ELSE IF Len(ls) = 1 THEN ls[1]
  ELSE JoinSpaces(SubSeq(ls, 1, Len(ls) - 1)) \o " " \o ls[Len(ls)]

\* The lexemes of tokens a .. b-1.
Lexemes(toks, a, b) == [ i \in 1..(b - a) |-> toks[a + i].lexeme ]

\* The scanner with a plain depth counter in place of the bracket stack.
RECURSIVE DepthScan(_, _, _, _, _)
DepthScan(toks, p, d, mab, ml) ==
  IF p >= Len(toks) THEN p
  ELSE LET c == SymAt(toks, p)
       IN  IF c = ";" THEN (IF ml THEN DepthScan(toks, p + 1, d, mab, ml) ELSE p + 1)
           ELSE IF c \in Openers(mab) THEN DepthScan(toks, p + 1, d + 1, mab, ml)
           ELSE IF c \in Closers(mab)
                THEN (IF d > 0 THEN DepthScan(toks, p + 1, d - 1, mab, ml) ELSE p)
           ELSE DepthScan(toks, p + 1, d, mab, ml)

InLoop == pc = "code_loop" /\ LoopCond(tokens, LoopState)

----------------------------------------------------------------------------
(* C1: with multi_line = false a ';' ends the scan only at bracket depth   *)
(* zero: whenever the scan has been ended by a ';' (the last consumed      *)
(* token is ';' and finished is set), the bracket stack is empty.          *)
C1_SemicolonEndsOnlyAtDepthZero ==
  ( /\ pc \in {"code_loop", "done"}
    /\ ~multi_line
    /\ finished
    /\ pos > start_pos
    /\ SymAt(tokens, pos - 1) = ";" )
  => open_symbols = << >>

(* C2: a closer met with an empty bracket stack ends the scan with the     *)
(* cursor left on that closer; the returned text is the text of the tokens *)
(* before it; `foo ( a , b ) )` from token 0 gives "foo ( a , b )" and the *)
(* cursor on the second ')' (token 6).                                     *)
C2_UnmatchedCloserStep ==
  ( /\ InLoop
    /\ open_symbols = << >>
    /\ SymAt(tokens, pos) \in Closers(match_angle_bracket) )
  => ( /\ pos' = pos
       /\ finished'
       /\ open_symbols' = << >>
       /\ ~LoopCond(tokens, [pos |-> pos', open_symbols |-> open_symbols',
                             finished |-> finished']) )

C2_ReturnStep ==
  (pc = "code_loop" /\ pc' = "done")
  => (pos' = pos /\ text' = JoinSpaces(Lexemes(tokens, start_pos, pos)))

C2_Scenario ==
  ( /\ pc = "done"
    /\ tokens = ScenarioUnmatched
    /\ start_pos = 0
    /\ ~multi_line )
  => (pos = 6 /\ text = "foo ( a , b )" /\ SymAt(tokens, pos) = ")")

C2_UnmatchedCloserNotConsumed ==
  [][C2_UnmatchedCloserStep /\ C2_ReturnStep]_vars /\ []C2_Scenario

C2_Witness ==
  /\ pc = "done"
  /\ tokens = ScenarioUnmatched
  /\ start_pos = 0
  /\ ~multi_line
  /\ pos = 6
  /\ open_symbols = << >>
  /\ text = "foo ( a , b )"

(* C3: with multi_line = true the scan returns with the cursor on the      *)
(* first surplus closer at or after the start, or at the token count when  *)
(* there is none; a ';' never stops it.                                    *)
C3_MultiLineStopsAtFirstSurplusCloser ==
  (pc = "done" /\ multi_line)
  => pos = FirstSurplus(tokens, start_pos, match_angle_bracket)

C3_Witness ==
  /\ pc = "done"
  /\ multi_line
  /\ pos < Len(tokens)
  /\ pos >= start_pos + 3
  /\ \E i \in start_pos..(pos - 1) : SymAt(tokens, i) = ";"
  /\ \E i \in start_pos..(pos - 1) : SymAt(tokens, i) \in Openers(match_angle_bracket)

(* C4: with match_angle_bracket = false a '<' or '>' is consumed without   *)
(* pushing, popping or ending the scan (over `a < b ; c > d ;` the scan    *)
(* ends right after the first ';'); with match_angle_bracket = true '<'    *)
(* pushes and '>' pops, or ends the scan unconsumed on an empty stack.     *)
C4_AngleStep ==
  /\ ( InLoop /\ ~match_angle_bracket /\ SymAt(tokens, pos) \in {"<", ">"} )
     => ( /\ pos' = pos + 1
          /\ open_symbols' = open_symbols
          /\ finished' = finished )
  /\ ( InLoop /\ match_angle_bracket /\ SymAt(tokens, pos) = "<" )
     => ( /\ pos' = pos + 1
          /\ open_symbols' = Append(open_symbols, "<")
          /\ finished' = finished )
  /\ ( InLoop /\ match_angle_bracket /\ SymAt(tokens, pos) = ">" )
     => IF open_symbols # << >>
        THEN /\ pos' = pos + 1
             /\ open_symbols' = SubSeq(open_symbols, 1, Len(open_symbols) - 1)
             /\ finished' = finished
        ELSE /\ pos' = pos
             /\ open_symbols' = open_symbols
             /\ finished'

C4_Scenario ==
  ( /\ pc = "done"
    /\ tokens = ScenarioAngle
    /\ start_pos = 0
    /\ ~match_angle_bracket
    /\ ~multi_line )
  => (pos = 4 /\ text = "a < b ;")

C4_AngleBracketToggle == [][C4_AngleStep]_vars /\ []C4_Scenario

C4_Witness ==
  /\ pc = "done"
  /\ tokens = ScenarioAngle
  /\ start_pos = 0
  /\ ~match_angle_bracket
  /\ ~multi_line
  /\ pos = 4

(* C5: the returned text is the lexemes of tokens start .. cursor-1 joined *)
(* by single spaces, with start <= cursor <= token count; a closer at the  *)
(* start position gives the empty text and leaves the cursor unchanged.    *)
C5_TextIsConsumedLexemes ==
  pc = "done"
  => /\ start_pos <= pos
     /\ pos <= Len(tokens)
     /\ text = JoinSpaces(Lexemes(tokens, start_pos, pos))
     /\ (SymAt(tokens, start_pos) \in Closers(match_angle_bracket)
           => (pos = start_pos /\ text = ""))

C5_Witness ==
  /\ pc = "done"
  /\ pos = start_pos + 3
  /\ start_pos > 0
  /\ text = "( a )"

(* C6: when the tokens run out before a terminator is met, the scan        *)
(* returns normally with the cursor at the token count and no error, also  *)
(* with brackets still open.                                               *)
C6_EndOfInputReturnsNormally ==
  ( /\ pc = "done"
    /\ \/ ~finished
       \/ /\ FirstSurplus(tokens, start_pos, match_angle_bracket) = Len(tokens)
          /\ (multi_line \/ CountIn(tokens, start_pos, Len(tokens), {";"}) = 0) )
  => (pos = Len(tokens) /\ status = "ok" /\ err_pos = -1 /\ ~finished)

C6_Witness ==
  /\ pc = "done"
  /\ ~finished
  /\ pos = Len(tokens)
  /\ pos > start_pos
  /\ Len(open_symbols) >= 2
  /\ status = "ok"

(* C7: the final cursor and text equal those of the scanner that keeps a   *)
(* plain depth counter instead of the bracket stack; a closer is never     *)
(* compared with the opener it pops.                                       *)
C7_StackIsDepthCounter ==
  pc = "done"
  => LET p == DepthScan(tokens, start_pos, 0, match_angle_bracket, multi_line)
     IN  pos = p /\ text = JoinSpaces(Lexemes(tokens, start_pos, p))

C7_Witness ==
  /\ pc = "done"
  /\ SymAt(tokens, start_pos) = "("
  /\ SymAt(tokens, start_pos + 1) = "}"
  /\ pos >= start_pos + 3

----------------------------------------------------------------------------
(* Reference definitions used to state the properties of ProcessType.      *)

IsIdAt(toks, i) == i >= 0 /\ i < Len(toks) /\ toks[i + 1].kind = "ID"

LexAt(toks, i) == IF i >= 0 /\ i < Len(toks) THEN toks[i + 1].lexeme ELSE ""

\* The first position where ProcessType, started at s, needs an identifier.
FirstIdPos(toks, s) ==
  LET a == IF LexAt(toks, s) = "const" THEN s + 1 ELSE s
      b == IF LexAt(toks, a) = "typename" THEN a + 1 ELSE a
  IN  IF LexAt(toks, b) = "template" THEN b + 1 ELSE b

\* How far the call got: the offending token on an error, else the cursor.
Reached == IF status = "error" THEN err_pos ELSE pos

(* C8: when the type's identifier is followed by '<', every token through  *)
(* the '>' that closes that '<' is consumed and the scan continues after   *)
(* it; `Foo < Bar > ( x )` gives "Foo < Bar >" with the cursor on '('; and *)
(* a template argument list with no closing '>' is a fatal error.          *)
C8_TemplateArgsConsumedThroughCloser ==
  ( /\ pc = "type_done"
    /\ IsIdAt(tokens, start_pos)
    /\ FirstIdPos(tokens, start_pos) = start_pos
    /\ LexAt(tokens, start_pos + 1) = "<" )
  => LET j == FirstSurplus(tokens, start_pos + 2, TRUE)
     IN  /\ (j < Len(tokens) /\ SymAt(tokens, j) = ">") => Reached > j
         /\ (\A i \in (start_pos + 2)..(Len(tokens) - 1) : SymAt(tokens, i) # ">")
               => status = "error"
         /\ (tokens = ScenarioTemplate /\ start_pos = 0)
               => (status = "ok" /\ pos = 4 /\ text = "Foo < Bar >")

(* C9: when the token at the first position that needs a type identifier   *)
(* is no identifier (or there is no token there), the call ends in a fatal *)
(* parse error; no call ends otherwise than by returning or by a fatal     *)
(* parse error.                                                            *)
C9_MissingIdentifierIsFatalError ==
  pc = "type_done"
  => /\ ~IsIdAt(tokens, FirstIdPos(tokens, start_pos))
          => (status = "error" /\ err_pos = FirstIdPos(tokens, start_pos))
     /\ status \in {"ok", "error"}

(* C10: a type that is returned has at most one trailing symbol: the last  *)
(* two tokens it consumed are never both among '&' and '*'.                *)
C10_AtMostOneTrailingSymbol ==
  (pc = "type_done" /\ status = "ok" /\ pos >= start_pos + 2)
  => ~( SymAt(tokens, pos - 1) \in {"&", "*"} /\ SymAt(tokens, pos - 2) \in {"&", "*"} )

----------------------------------------------------------------------------
(* Reference definitions used to state the properties of ProcessParams.    *)

\* A parameter as it reads in the source: its type, then its identifier.
RenderParam(info) ==
  IF info.identifier = "" THEN info.type_name
  ELSE info.type_name \o " " \o info.identifier

\* The parameters as they read in the source, separated by commas.
RECURSIVE RenderParams(_)
RenderParams(ps) ==
  IF Len(ps) = 0 THEN ""
  ELSE IF Len(ps) = 1 THEN RenderParam(ps[1])
  ELSE RenderParams(SubSeq(ps, 1, Len(ps) - 1)) \o " , " \o RenderParam(ps[Len(ps)])

InParamsLoop == pc = "params_loop" /\ SymAt(tokens, pos) # ")"

(* C11: when ProcessParams returns, the cursor is on a ')' it has not      *)
(* consumed and the parameters, read in order, are the consumed tokens;    *)
(* every iteration appends one parameter after the earlier ones, whose     *)
(* identifier is the identifier token after its type, and is empty exactly *)
(* when no identifier follows the type.                                    *)
C11_ParamAppended ==
  (InParamsLoop /\ pc' = "params_loop")
  => LET info == params'[Len(params')]
         first == pos + (IF Len(params) > 0 THEN 1 ELSE 0)
     IN  /\ Len(params') = Len(params) + 1
         /\ SubSeq(params', 1, Len(params)) = params
         /\ IF info.identifier = ""
            THEN /\ ~IsIdAt(tokens, pos')
                 /\ pos' > first
                 /\ info.type_name = JoinSpaces(Lexemes(tokens, first, pos'))
            ELSE /\ IsIdAt(tokens, pos' - 1)
                 /\ pos' - 1 > first
                 /\ info.identifier = LexAt(tokens, pos' - 1)
                 /\ info.type_name = JoinSpaces(Lexemes(tokens, first, pos' - 1))

C11_Returned ==
  (pc = "params_done" /\ status = "ok")
  => /\ SymAt(tokens, pos) = ")"
     /\ RenderParams(params) = JoinSpaces(Lexemes(tokens, start_pos, pos))

C11_ParamsInSourceOrder == [][C11_ParamAppended]_vars /\ []C11_Returned

C11_Witness ==
  /\ pc = "params_done"
  /\ status = "ok"
  /\ Len(params) = 2
  /\ params[1] = [type_name |-> "T", identifier |-> "x"]
  /\ params[2] = [type_name |-> "T", identifier |-> ""]
  /\ SymAt(tokens, pos) = ")"

(* C12: once a parameter has been recorded, a next token that is neither   *)
(* ')' nor ',' is a fatal error at that token and no parameter is added;   *)
(* every recorded parameter after the first follows a ',' token.           *)
C12_MissingComma ==
  ( /\ pc = "params_loop"
    /\ Len(params) > 0
    /\ SymAt(tokens, pos) \notin {")", ","} )
  => ( /\ pc' = "params_done"
       /\ status' = "error"
       /\ err_pos' = pos
       /\ params' = params )

C12_CommaConsumed ==
  (InParamsLoop /\ Len(params) > 0 /\ Len(params') > Len(params))
  => SymAt(tokens, pos) = ","

C12_CommaRequired == [][C12_MissingComma /\ C12_CommaConsumed]_vars

C12_Witness ==
  /\ pc = "params_done"
  /\ status = "error"
  /\ Len(params) = 1
  /\ err_pos > start_pos
  /\ IsIdAt(tokens, err_pos)

----------------------------------------------------------------------------
(* Reference definitions used to state the properties of ProcessConcept.   *)
(* The members of the concept sources have a one-identifier type, so the   *)
(* member name is the token after the type and the token after the name is *)
(* two past the start of the member.                                       *)

\* The body loop takes a member: the cursor is on a token other than '}'.
MemberStep == pc = "concept_body" /\ SymAt(tokens, pos) # "}"

MemberAccepted == MemberStep /\ pc' = "concept_body"

MemberRejected == MemberStep /\ pc' = "concept_done"

UsingStep == MemberStep /\ LexAt(tokens, pos) = "using"

\* A member that is no using: a one-identifier type and the member name.
Declared ==
  /\ MemberStep
  /\ IsIdAt(tokens, pos)
  /\ LexAt(tokens, pos) \notin {"using", "const", "typename", "template"}
  /\ IsIdAt(tokens, pos + 1)

Collections == {"typedefs", "functions", "variables"}

Appended(old, new) == Len(new) = Len(old) + 1 /\ SubSeq(new, 1, Len(old)) = old

AppendedOnlyTo(f) ==
  /\ Appended(concept[f], concept'[f])
  /\ \A g \in Collections \ {f} : concept'[g] = concept[g]
  /\ concept'.name = concept.name
  /\ concept'.base_name = concept.base_name

\* The element a step has appended to collection f.
LastOf(f) == concept'[f][Len(concept'[f])]

Least(S) == CHOOSE i \in S : \A j \in S : i <= j

\* The ')' ending the parameter list of the function member that starts at
\* p, the token count when there is none.
ParamsClose(toks, p) ==
  LET S == { i \in (p + 3)..(Len(toks) - 1) : SymAt(toks, i) = ")" }
  IN  IF S = {} THEN Len(toks) ELSE Least(S)

\* The first token after the attribute identifiers that follow the ')' at c.
AfterAttributes(toks, c) == Least({ i \in (c + 1)..Len(toks) : ~IsIdAt(toks, i) })

FunctionStep ==
  /\ Declared
  /\ SymAt(tokens, pos + 2) = "("
  /\ ParamsClose(tokens, pos) < Len(tokens)

\* Where the tail of the function member taken by this step starts.
FunTail == AfterAttributes(tokens, ParamsClose(tokens, pos))

\* The step has failed on a token of the parameter list.
RejectedInParams ==
  /\ MemberRejected
  /\ err_pos' \in (pos + 3)..(ParamsClose(tokens, pos) - 1)

SpecialTail(q) ==
  /\ SymAt(tokens, q) = "="
  /\ IsIdAt(tokens, q + 1)
  /\ LexAt(tokens, q + 1) \in {"required", "default"}
  /\ SymAt(tokens, q + 2) = ";"

VariableStep == Declared /\ SymAt(tokens, pos + 2) # "("

(* C13: each member of a concept body is appended to exactly one of the    *)
(* three collections: to typedefs iff it starts with the keyword using,    *)
(* otherwise to functions iff the token right after the member name is     *)
(* '(', otherwise to variables; a member that fails is appended to none.   *)
C13_Collection ==
  IF LexAt(tokens, pos) = "using" THEN "typedefs"
  ELSE IF SymAt(tokens, pos + 2) = "(" THEN "functions"
  ELSE "variables"

C13_MemberStep ==
  /\ (MemberAccepted /\ (UsingStep \/ Declared)) => AppendedOnlyTo(C13_Collection)
  /\ MemberRejected => concept' = concept

C13_OneCollectionPerMember == [][C13_MemberStep]_vars

C13_Witness ==
  /\ pc = "concept_body"
  /\ Len(concept.typedefs) = 1
  /\ Len(concept.functions) = 1
  /\ Len(concept.variables) = 0
  /\ concept.typedefs[1].name = "X"
  /\ concept.functions[1].name = "f"

(* C14: a function member whose parameter list and attribute identifiers   *)
(* are followed by `= required ;` or `= default ;` is recorded with that   *)
(* word as special_value and an empty default_code, and the cursor ends    *)
(* right after the ';'.                                                    *)
C14_SpecialStep ==
  (FunctionStep /\ SpecialTail(FunTail))
  => \/ RejectedInParams
     \/ /\ MemberAccepted
        /\ AppendedOnlyTo("functions")
        /\ LastOf("functions").special_value = LexAt(tokens, FunTail + 1)
        /\ LastOf("functions").default_code = ""
        /\ pos' = FunTail + 3

C14_RequiredOrDefaultRecorded == [][C14_SpecialStep]_vars

C14_Witness ==
  /\ pc = "concept_body"
  /\ Len(concept.functions) = 2
  /\ concept.functions[1].special_value = "required"
  /\ concept.functions[2].special_value = "default"
  /\ concept.functions[2].default_code = ""
  /\ SymAt(tokens, pos - 1) = ";"
  /\ LexAt(tokens, pos - 2) = "default"

(* C15: a function member whose parameter list is followed by '{' is       *)
(* recorded with an empty special_value and the space-joined lexemes       *)
(* strictly between that '{' and its closing '}' as default_code           *)
(* (`void f ( ) { return ; }` gives "return ;"), the cursor ending right   *)
(* after the closing '}'; a body scan that stops on anything other than    *)
(* '}' is a fatal error.                                                   *)
C15_BodyStep ==
  (FunctionStep /\ SymAt(tokens, FunTail) = "{")
  => LET j == FirstSurplus(tokens, FunTail + 1, FALSE)
     IN  \/ RejectedInParams
         \/ IF SymAt(tokens, j) = "}"
            THEN /\ MemberAccepted
                 /\ AppendedOnlyTo("functions")
                 /\ LastOf("functions").special_value = ""
                 /\ LastOf("functions").default_code
                      = JoinSpaces(Lexemes(tokens, FunTail + 1, j))
                 /\ pos' = j + 1
            ELSE /\ MemberRejected
                 /\ status' = "error"
                 /\ err_pos' = j
                 /\ concept' = concept

C15_FunctionBodyRecorded == [][C15_BodyStep]_vars

C15_Witness ==
  /\ pc = "concept_body"
  /\ Len(concept.functions) = 1
  /\ concept.functions[1].special_value = ""
  /\ concept.functions[1].default_code = "return ;"
  /\ SymAt(tokens, pos - 1) = "}"
  /\ LexAt(tokens, pos - 3) = "return"

(* C16: after a function member's parameter list and attribute             *)
(* identifiers, any continuation other than '{', `= required ;` or         *)
(* `= default ;` is a fatal error and the function is not appended.        *)
C16_IllegalTailStep ==
  (FunctionStep /\ SymAt(tokens, FunTail) # "{" /\ ~SpecialTail(FunTail))
  => /\ MemberRejected
     /\ status' = "error"
     /\ concept' = concept

C16_IllegalFunctionTailIsFatal == [][C16_IllegalTailStep]_vars

C16_Witness ==
  /\ pc = "concept_done"
  /\ status = "error"
  /\ Len(tokens) >= 8
  /\ SubSeq(tokens, 5, 8) = FunHead
  /\ SymAt(tokens, 8) = "="
  /\ LexAt(tokens, 9) = "other"
  /\ err_pos = 10
  /\ concept.functions = << >>

(* C17: for a variable member, default_code is empty iff the token right   *)
(* after the member name is ';', which is then consumed; otherwise         *)
(* default_code is the result of a ProcessCode scan with multi_line false  *)
(* starting at that token; the member is appended to variables.            *)
C17_VariableStep ==
  VariableStep
  => /\ MemberAccepted
     /\ AppendedOnlyTo("variables")
     /\ (LastOf("variables").default_code = "" <=> SymAt(tokens, pos + 2) = ";")
     /\ IF SymAt(tokens, pos + 2) = ";" THEN pos' = pos + 3
        ELSE /\ LastOf("variables").default_code = StatementScan(tokens, pos + 2).text
             /\ pos' = StatementScan(tokens, pos + 2).pos

C17_VariableDefault == [][C17_VariableStep]_vars

(* C18: a construct scanned as a single statement (a using member, a       *)
(* variable member with a default value) is accepted only if it is         *)
(* terminated by ';': after it the last consumed token is a ';'.           *)
C18_StatementStep ==
  (MemberAccepted /\ (UsingStep \/ (VariableStep /\ SymAt(tokens, pos + 2) # ";")))
  => SymAt(tokens, pos' - 1) = ";"

C18_StatementEndsWithSemicolon == [][C18_StatementStep]_vars

(* C19: ProcessConcept returns without fatal error only if the '}' closing *)
(* the concept body is immediately followed by ';', and then the cursor is *)
(* right after that ';'; a missing trailing ';' is a fatal error.          *)
C19_CloseStep ==
  (pc = "concept_body" /\ SymAt(tokens, pos) = "}")
  => /\ pc' = "concept_done"
     /\ concept' = concept
     /\ IF SymAt(tokens, pos + 1) = ";"
        THEN status' = "ok" /\ pos' = pos + 2
        ELSE status' = "error" /\ err_pos' = pos + 1

C19_Returned ==
  (pc = "concept_done" /\ status = "ok")
  => (SymAt(tokens, pos - 2) = "}" /\ SymAt(tokens, pos - 1) = ";")

C19_ClosingBraceThenSemicolon == [][C19_CloseStep]_vars /\ []C19_Returned

C19_Witness ==
  /\ pc = "concept_done"
  /\ status = "ok"
  /\ pos = Len(tokens)
  /\ Len(concept.variables) = 1
  /\ concept.variables[1].name = "age"

(* C20: a concept header is `<identifier> : <identifier> {` in that order; *)
(* a concept whose header was accepted has a non-empty name and base_name  *)
(* equal to the two identifier lexemes.                                    *)
C20_HeaderAccepted == pc = "concept_body" \/ (pc = "concept_done" /\ status = "ok")

C20_HeaderWellFormed ==
  C20_HeaderAccepted
  => /\ IsIdAt(tokens, start_pos)
     /\ LexAt(tokens, start_pos + 1) = ":"
     /\ IsIdAt(tokens, start_pos + 2)
     /\ SymAt(tokens, start_pos + 3) = "{"
     /\ concept.name = LexAt(tokens, start_pos) /\ concept.name # ""
     /\ concept.base_name = LexAt(tokens, start_pos + 2) /\ concept.base_name # ""

(* C21: each collection lists its members in the order in which they       *)
(* appear in the token sequence: a member step moves the cursor forward    *)
(* and puts the member that starts at the cursor after every member of an  *)
(* earlier step, and no step changes or reorders the members already held. *)
C21_Kept(f) ==
  /\ Len(concept'[f]) >= Len(concept[f])
  /\ SubSeq(concept'[f], 1, Len(concept[f])) = concept[f]

C21_MemberStep ==
  /\ pc = "concept_body" => \A f \in Collections : C21_Kept(f)
  /\ MemberAccepted
     => /\ pos' > pos
        /\ \E f \in Collections :
             /\ Len(concept'[f]) = Len(concept[f]) + 1
             /\ LastOf(f).name = LexAt(tokens, pos + 1)

C21_SourceOrderKept == [][C21_MemberStep]_vars

C21_Witness ==
  /\ pc = "concept_body"
  /\ Len(concept.functions) = 2
  /\ concept.functions[1].name = "GetFitness"
  /\ concept.functions[2].name = "f"
  /\ LexAt(tokens, 5) = "GetFitness"
  /\ LexAt(tokens, 12) = "f"

----------------------------------------------------------------------------
(* Properties of ProcessTop and Process.                                   *)

\* The run has ended, normally or by a fatal error.
Ended == pc = "top_done"

Completed == pc = "top_done" /\ status = "ok"

(* C22: parsing `concept Fitness : Base { double GetFitness() = required;  *)
(* int age; };` from token 0 gives exactly one Concept node, named Fitness *)
(* with base Base, one function (GetFitness, type double, required, no     *)
(* parameters), one variable (age, type int, no default) and no typedefs.  *)
C22_GetFitness ==
  [EmptyElement EXCEPT !.name = "GetFitness", !.type = "double",
                       !.special_value = "required"]

C22_Age == [EmptyElement EXCEPT !.name = "age", !.type = "int"]

C22_MinimalConcept ==
  (Ended /\ tokens = ScenarioConcept /\ start_pos = 0)
  => /\ status = "ok"
     /\ pos = Len(tokens)
     /\ ast_root.children
          = << [kind |-> "Concept", name |-> "Fitness", base_name |-> "Base",
                typedefs |-> << >>, variables |-> << C22_Age >>,
                functions |-> << C22_GetFitness >>] >>

C22_Witness ==
  /\ Completed
  /\ tokens = ScenarioConcept
  /\ start_pos = 0
  /\ Len(ast_root.children) = 1
  /\ ast_root.children[1].functions[1].special_value = "required"

\* The token at p can begin a statement of ProcessTop.
TopKeywords == {"concept", "struct", "class", "namespace", "using"}

Recognized(toks, p) ==
  \/ (p >= 0 /\ p < Len(toks) /\ toks[p + 1].kind = "PP")
  \/ (IsIdAt(toks, p) /\ LexAt(toks, p) \in TopKeywords)

\* The dispatcher is at the start of a statement of the scope it processes:
\* a '}' in a namespace body ends that body and begins no statement.
AtStatement ==
  /\ pc = "top_loop"
  /\ pos < Len(tokens)
  /\ (scope_depth = 0 \/ SymAt(tokens, pos) # "}")

(* C23: at any scope level, the root included, a statement that begins     *)
(* with a token other than concept, struct, class, namespace, using or a   *)
(* preprocessor token raises a fatal error at that token; the token is     *)
(* neither skipped nor does the dispatcher return silently on it.          *)
C23_UnknownStep ==
  (AtStatement /\ ~Recognized(tokens, pos))
  => /\ pc' = "top_done"
     /\ status' = "error"
     /\ err_pos' = pos

C23_UnknownStatementIsFatal == [][C23_UnknownStep]_vars

(* C24: when Process completes without a fatal error every token of the   *)
(* input has been consumed, from the first one to the cursor at the token  *)
(* count; the statements are taken one after the other, each from where    *)
(* the one before it ended, so the spans of the nodes are contiguous and   *)
(* in source order.                                                        *)
C24_AllConsumed == Completed => (start_pos = 0 /\ pos = Len(tokens))

C24_ForwardStep == pc = "top_loop" => pos' >= pos

C24_NoTokenLeftBehind == []C24_AllConsumed /\ [][C24_ForwardStep]_vars

(* C25: Process starts the dispatcher with the cursor at token index 0.    *)
C25_StartsAtTokenZero == pc # "idle" => start_pos = 0

\* The scope reached from scope through the last child, d times.
RECURSIVE ScopeAt(_, _)
ScopeAt(scope, d) ==
  IF d = 0 THEN scope ELSE ScopeAt(scope.children[Len(scope.children)], d - 1)

HasChildren(n) == n.kind \in {"Scope", "Namespace"}

\* The number of nodes of the tree under n, n included.
RECURSIVE NodeCount(_)
RECURSIVE NodeCountAll(_)
NodeCountAll(ns) == IF Len(ns) = 0 THEN 0 ELSE NodeCount(ns[1]) + NodeCountAll(Tail(ns))

NodeCount(n) == IF HasChildren(n) THEN 1 + NodeCountAll(n.children) ELSE 1

\* The tree of `namespace A { namespace B { using X = int; } }` with the
\* given type text in the Using node.
NestedTree(type) ==
  << [kind |-> "Namespace", name |-> "A", children |->
       << [kind |-> "Namespace", name |-> "B", children |->
            << [kind |-> "Using", name |-> "X", type |-> type] >> ] >> ] >>

\* The claim as stated: the Using node has type "int".
C26_NestedNamespacesOriginal ==
  (Ended /\ tokens = ScenarioNamespaces /\ start_pos = 0)
  => (status = "ok" /\ ast_root.children = NestedTree("int"))

(* C26: parsing `namespace A { namespace B { using X = int; } }` gives a    *)
(* root with one Namespace A, whose only child is Namespace B, whose only  *)
(* child is a Using node with name X and type "int ;", the scanned text    *)
(* with its ';'; every node created while a namespace body is processed    *)
(* becomes the last child of that namespace's node and of no other node.   *)
C26_Scenario ==
  (Ended /\ tokens = ScenarioNamespaces /\ start_pos = 0)
  => (status = "ok" /\ pos = Len(tokens) /\ ast_root.children = NestedTree("int ;"))

C26_NodeStep ==
  (pc = "top_loop" /\ ast_root' # ast_root)
  => /\ NodeCount(ast_root') = NodeCount(ast_root) + 1
     /\ Appended(ScopeAt(ast_root, scope_depth).children,
                 ScopeAt(ast_root', scope_depth).children)
     /\ \A d \in 0..(scope_depth - 1) :
          /\ ScopeAt(ast_root', d).name = ScopeAt(ast_root, d).name
          /\ Len(ScopeAt(ast_root', d).children) = Len(ScopeAt(ast_root, d).children)
     /\ scope_depth' > scope_depth
        => /\ ScopeAt(ast_root', scope_depth').kind = "Namespace"
           /\ ScopeAt(ast_root', scope_depth').children = << >>

C26_NestedNamespaces == []C26_Scenario /\ [][C26_NodeStep]_vars

C26_Witness ==
  /\ Completed
  /\ tokens = ScenarioNamespaces
  /\ start_pos = 0
  /\ ast_root.children[1].children[1].children[1].name = "X"

\* The last child of the scope that was being processed before this step.
NewNode == LET cs == ScopeAt(ast_root', scope_depth).children IN cs[Len(cs)]

\* This step has created exactly one node, as the last child of the scope
\* being processed.
OneNodeCreated ==
  /\ NodeCount(ast_root') = NodeCount(ast_root) + 1
  /\ Appended(ScopeAt(ast_root, scope_depth).children,
              ScopeAt(ast_root', scope_depth).children)

ClassStep == AtStatement /\ IsIdAt(tokens, pos) /\ LexAt(tokens, pos) \in {"struct", "class"}

\* Where the '{' of the struct / class statement at the cursor is required.
ClassBrace == IF IsIdAt(tokens, pos + 1) THEN pos + 2 ELSE pos + 1

(* C27: a struct / class statement yields one Class node whose body is the *)
(* space-joined lexemes strictly between its '{' and the closing '}', and  *)
(* no node for anything inside the body; the name is optional; a missing   *)
(* '{', closing '}' or trailing ';' is a fatal error.                      *)
C27_ClassStep ==
  ClassStep
  => LET n == ClassBrace
         j == FirstSurplus(tokens, n + 1, FALSE)
     IN  IF SymAt(tokens, n) # "{"
         THEN pc' = "top_done" /\ status' = "error" /\ err_pos' = n
         ELSE IF SymAt(tokens, j) # "}"
         THEN pc' = "top_done" /\ status' = "error" /\ err_pos' = j
         ELSE IF SymAt(tokens, j + 1) # ";"
         THEN pc' = "top_done" /\ status' = "error" /\ err_pos' = j + 1
         ELSE /\ pc' = "top_loop"
              /\ status' = status
              /\ pos' = j + 2
              /\ scope_depth' = scope_depth
              /\ OneNodeCreated
              /\ NewNode = [kind |-> "Class", type |-> LexAt(tokens, pos),
                            name |-> IF n = pos + 2 THEN LexAt(tokens, pos + 1) ELSE "",
                            body |-> JoinSpaces(Lexemes(tokens, n + 1, j))]

C27_ClassBodyVerbatim == [][C27_ClassStep]_vars

C27_Witness ==
  /\ Completed
  /\ start_pos = 0
  /\ ast_root.children
       = << [kind |-> "Class", type |-> "struct", name |-> "",
             body |-> "concept Fitness : Base { int age ; } ;"] >>

PPStep == AtStatement /\ tokens[pos + 1].kind = "PP"

(* C28: each preprocessor token met at scope level produces exactly one    *)
(* passthrough node holding that token's lexeme (followed by a newline),   *)
(* placed after its earlier siblings, advances the cursor by exactly one   *)
(* token, and the dispatcher continues in the same scope.                  *)
C28_PPStep ==
  PPStep
  => /\ OneNodeCreated
     /\ NewNode = [kind |-> "PP", code |-> LexAt(tokens, pos) \o "\n"]
     /\ pos' = pos + 1
     /\ pc' = "top_loop"
     /\ scope_depth' = scope_depth
     /\ status' = status

C28_PreprocessorPassthrough == [][C28_PPStep]_vars

C28_Witness ==
  /\ pc = "top_loop"
  /\ scope_depth = 1
  /\ start_pos = 0
  /\ Len(ast_root.children) = 2
  /\ ast_root.children[1].kind = "PP"
  /\ ast_root.children[2].kind = "Namespace"
  /\ ast_root.children[2].children = << [kind |-> "PP", code |-> "#pragma once\n"] >>
  /\ pos = 5

\* The bracket opened just before token p is not closed by any later token.
LeftOpen(toks, p, mab) == FirstSurplus(toks, p, mab) = Len(toks)

Fatal == pc' = "top_done" /\ status' = "error"

\* A concept statement with a well-formed header at the cursor.
ConceptStep ==
  /\ AtStatement
  /\ IsIdAt(tokens, pos) /\ LexAt(tokens, pos) = "concept"
  /\ IsIdAt(tokens, pos + 1)
  /\ SymAt(tokens, pos + 2) = ":"
  /\ IsIdAt(tokens, pos + 3)
  /\ SymAt(tokens, pos + 4) = "{"

\* A using statement whose new type name opens a template argument list.
UsingTemplateStep ==
  /\ AtStatement
  /\ IsIdAt(tokens, pos) /\ LexAt(tokens, pos) = "using"
  /\ IsIdAt(tokens, pos + 1)
  /\ LexAt(tokens, pos + 1) \notin {"const", "typename", "template"}
  /\ SymAt(tokens, pos + 2) = "<"

(* C29: if the input is exhausted inside a namespace body, a class body, a *)
(* concept body (with the function bodies, parameter lists and template    *)
(* argument lists in it) or a template argument list, the run ends with a  *)
(* fatal error; Process never completes with such a construct left open.   *)
C29_ExhaustedStep ==
  /\ (pc = "top_loop" /\ scope_depth > 0 /\ pos >= Len(tokens)) => Fatal
  /\ (ClassStep /\ SymAt(tokens, ClassBrace) = "{"
        /\ LeftOpen(tokens, ClassBrace + 1, FALSE)) => Fatal
  /\ (ConceptStep /\ LeftOpen(tokens, pos + 5, FALSE)) => Fatal
  /\ (UsingTemplateStep /\ LeftOpen(tokens, pos + 3, TRUE)) => Fatal

C29_UnterminatedIsFatal == [][C29_ExhaustedStep]_vars

(* C30: the first fatal error ends the run: once Error has been raised the *)
(* cursor is never advanced again, no node or concept member is added to   *)
(* the tree and no second error is reported, whatever scope the error was  *)
(* raised in.                                                              *)
C30_AfterErrorStep ==
  status = "error"
  => /\ pos' = pos
     /\ ast_root' = ast_root
     /\ err_pos' = err_pos
     /\ status' = status
     /\ scope_depth' = scope_depth
     /\ pc' = pc

C30_ErrorEnded == status = "error" => (Ended /\ err_pos >= 0)

C30_FirstErrorEndsRun == [][C30_AfterErrorStep]_vars /\ []C30_ErrorEnded

C30_Witness ==
  /\ Ended
  /\ status = "error"
  /\ scope_depth > 0
  /\ pos < Len(tokens)
  /\ start_pos = 0
  /\ Len(ast_root.children[1].children) = 1

(* C31: a fatal error reports the index of the token that failed the       *)
(* expectation being checked. For a function member whose parameter list   *)
(* has parsed: a tail that starts with neither '=' nor '{' is reported at  *)
(* that first tail token, and an '=' followed by an identifier other than  *)
(* required and default is reported at that identifier.                    *)
C31_BadAssignment(q) ==
  /\ SymAt(tokens, q) = "="
  /\ IsIdAt(tokens, q + 1)
  /\ LexAt(tokens, q + 1) \notin {"required", "default"}

C31_OffendingStep ==
  (FunctionStep /\ ~RejectedInParams)
  => /\ SymAt(tokens, FunTail) \notin {"=", "{"}
          => (MemberRejected /\ err_pos' = FunTail)
     /\ C31_BadAssignment(FunTail)
          => (MemberRejected /\ err_pos' = FunTail + 1)

C31_ErrorNamesOffendingToken == [][C31_OffendingStep]_vars

(* C32: the tree retains the tokens of an input that parses without        *)
(* error. Echo mode renders the tree alone, so a round trip needs distinct *)
(* accepted inputs to build distinct trees: no other token sequence - the  *)
(* parsed tokens with one token dropped, one token repeated or two         *)
(* neighbours exchanged - parses without error into the same concept.      *)
C32_Drop(s, i) == SubSeq(s, 1, i - 1) \o SubSeq(s, i + 1, Len(s))

C32_Repeat(s, i) == SubSeq(s, 1, i) \o SubSeq(s, i, Len(s))

C32_Exchange(s, i) ==
  SubSeq(s, 1, i - 1) \o << s[i + 1], s[i] >> \o SubSeq(s, i + 2, Len(s))

C32_Variants(s) ==
  ({ C32_Drop(s, i) : i \in 1..Len(s) }
   \cup { C32_Repeat(s, i) : i \in 1..Len(s) }
   \cup { C32_Exchange(s, i) : i \in 1..(Len(s) - 1) }) \ {s}

C32_SameTree(v, r) == r.status = "ok" /\ r.pos = Len(v) /\ r.concept = concept

C32_EchoRoundTrip ==
  (pc = "concept_done" /\ status = "ok")
  => \A v \in C32_Variants(SubSeq(tokens, 1, pos)) :
       ~C32_SameTree(v, ProcessConcept(v, 0, "abort"))

(* C35: a run of the parser terminates. Every iteration of a loop that     *)
(* does not end the loop moves the cursor strictly forward and never past  *)
(* the token count: the statement loop of ProcessTop step by step, and at  *)
(* every cursor position of the input the member loop of ProcessConcept,   *)
(* the token loop of ProcessCode, the loop of ProcessParams and            *)
(* ProcessType. Every step of a run lowers a measure that is a natural     *)
(* number (twice the tokens ahead of the cursor plus the open namespace    *)
(* bodies), so a run of n tokens ends within 2n + 2 steps.                 *)
C35_Advances(p, q) == q > p /\ q <= Len(tokens)

C35_TopProgress == (pc = "top_loop" /\ pc' = "top_loop") => C35_Advances(pos, pos')

C35_OpenStacks == { << >>, << "(" >> }

C35_CodeIteration(p, n) == n.finished \/ C35_Advances(p, n.pos)

C35_CallProgress(p, r) == r.status = "ok" => C35_Advances(p, r.pos)

C35_InnerProgress ==
  \A p \in 0..Len(tokens) :
    /\ \A mab \in BOOLEAN, ml \in BOOLEAN, o \in C35_OpenStacks :
         LoopCond(tokens, [pos |-> p, open_symbols |-> o, finished |-> FALSE])
         => C35_CodeIteration(p,
              CodeStep(tokens, [pos |-> p, open_symbols |-> o, finished |-> FALSE],
                       mab, ml))
    /\ \A oob \in OOBOutcomes :
         /\ BodyCond(tokens, p) => C35_CallProgress(p, ConceptMember(tokens, p, oob))
         /\ ParamsCond(tokens, p)
            => C35_CallProgress(p, ParamStep(tokens, p, << >>, oob))
         /\ C35_CallProgress(p, ProcessType(tokens, p, oob))

C35_Rank ==
  IF pc = "top_done" THEN 0
  ELSE IF pc = "idle" THEN 2 * Len(tokens) + 2
  ELSE 2 * (Len(tokens) - pos) + scope_depth + 1

C35_ParserTerminates ==
  /\ [][C35_TopProgress /\ C35_Rank' < C35_Rank]_vars
  /\ [](C35_InnerProgress /\ C35_Rank >= 0)

C35_Witness ==
  /\ pc = "top_done"
  /\ status = "ok"
  /\ tokens = ScenarioNamespaces
  /\ pos = Len(tokens)

(* C36: the cursor never indexes outside the token vector. After a call of *)
(* ProcessType: no read of tokens[pos] has ended the run, the read of      *)
(* tokens[pos] made for the message of a failed RequireID (the error is    *)
(* reported at the cursor) was inside the vector, and the bounds of the    *)
(* ConcatLexemes call of a returned type satisfy start <= end <= count.    *)
C36_ReadInside == (status = "error" /\ err_pos = pos) => pos < Len(tokens)

C36_ConcatBounds == status = "ok" => (start_pos <= pos /\ pos <= Len(tokens))

C36_CursorStaysInside ==
  pc = "type_done" => (status # "crash" /\ C36_ReadInside /\ C36_ConcatBounds)

\* The cells of the table after a step.
CellsAfter == { rc \in (0..MaxRows) \X (0..MaxCols) : rc[1] < row_count' /\ rc[2] < col_count' }

(* C33: AddHeader(r, c, text) through any Table adds the text to cell      *)
(* (r, c) and sets the header flag of that same cell, whatever the row,    *)
(* column and focus of the Table it is called on; the header flag of no    *)
(* other cell changes.                                                     *)
C33_HeaderAdded(r, c) ==
  /\ widget_status' = "ok"
  /\ rows'[r][c].header
  /\ rows'[r][c].children = AppendText(rows, r, c, "x")[r][c].children
  /\ \A rc \in CellsAfter \ {<< r, c >>} : rows'[rc[1]][rc[2]].header = rows[rc[1]][rc[2]].header

C33_AddHeaderStep ==
  \A h \in Handles, r \in RowArgs, c \in ColArgs :
    (HasCell(r, c) /\ AddHeader(h, r, c, "x")) => C33_HeaderAdded(r, c)

C33_AddHeaderMarksItsCell == [][C33_AddHeaderStep]_vars

(* C34: Clear() clears the whole active component in each of the six focus *)
(* states, and ClearCells() does so for a row and a column; with a focus   *)
(* set by Set*Active on a component of the table neither fails an          *)
(* assertion.                                                              *)
C34_Component(t) ==
  { rc \in CellsAfter :
      /\ t.state \in RowStates => rc[1] = t.cur_row
      /\ t.state \in ColStates => rc[2] = t.cur_col }

C34_Cleared(t) ==
  /\ widget_status' = "ok"
  /\ \A rc \in C34_Component(t) : rows'[rc[1]][rc[2]] = TableData

C34_ClearStep ==
  \A h \in Handles :
    FocusOK(handles[h].state, handles[h].cur_row, handles[h].cur_col)
    => /\ Clear(h) => C34_Cleared(handles[h])
       /\ (handles[h].state \in {"ROW", "COL"} /\ ClearCells(h)) => C34_Cleared(handles[h])

C34_ClearCoversEveryFocus == [][C34_ClearStep]_vars

(* C38: every Table that shares the TableInfo keeps its current row below  *)
(* the row count and its current column below the column count.            *)
C38_HandlesInsideTable ==
  widget_status = "ok"
  => \A h \in Handles : handles[h].cur_row < row_count /\ handles[h].cur_col < col_count

(* C37: CodeGen terminates on every finite token sequence: every execution *)
(* of the body of the concept-body loop of ProcessConcept moves the cursor *)
(* forward, and the loop is left only when its condition is false.         *)
C37_BodyStep ==
  /\ iterations' # iterations => pos' > pos
  /\ (pc = "gen_body" /\ pc' # "gen_body") => AsChar(tokens, pos) = "{"

C37_CodeGenTerminates == [][C37_BodyStep]_vars

\* The cell (r2, c2) spans over the cell (r, c).
SpansOver(r2, c2, r, c) ==
  /\ << r2, c2 >> # << r, c >>
  /\ r2 <= r /\ r < r2 + rows[r2][c2].rowspan
  /\ c2 <= c /\ c < c2 + rows[r2][c2].colspan

CellsNow == { rc \in (0..MaxRows) \X (0..MaxSpanCols) : HasCell(rc[1], rc[2]) }

(* C39: a cell is masked exactly when it lies inside the span rectangle of *)
(* another cell, and the span rectangle of every cell stays inside the     *)
(* table.                                                                  *)
C39_SpansAndMasksAgree ==
  widget_status = "ok"
  => \A rc \in CellsNow :
       /\ rows[rc[1]][rc[2]].masked
          <=> \E o \in CellsNow : SpansOver(o[1], o[2], rc[1], rc[2])
       /\ rc[1] + rows[rc[1]][rc[2]].rowspan <= row_count
       /\ rc[2] + rows[rc[1]][rc[2]].colspan <= col_count

(* C40: cur_obj is NULL only before the first NewObject and is otherwise   *)
(* an object that name_map holds under some name and that has not been     *)
(* deleted; the callback is invoked on no deleted object.  UseObject with  *)
(* an unknown name and CommandCallback without a current object change     *)
(* neither name_map nor cur_obj, and that CommandCallback returns false    *)
(* and does not invoke the callback.                                       *)
C40_CurrentIsLive ==
  /\ cur_obj = NULL <=> allocated = 0
  /\ cur_obj # NULL
     => /\ cur_obj \notin deleted
        /\ \E n \in DOMAIN name_map : name_map[n] = cur_obj

C40_IgnoredCalls ==
  /\ \A n \in ObjectNames :
       (n \notin DOMAIN name_map /\ UseObject(n)) => UNCHANGED manager_vars
  /\ \A c \in Commands :
       /\ (cur_obj = NULL /\ CommandCallback(c))
          => /\ UNCHANGED << name_map, cur_obj, invocations >>
             /\ returned' = "false"
       /\ (cur_obj # NULL /\ CommandCallback(c)) => cur_obj \notin deleted

C40_CurrentObjectIsLive == []C40_CurrentIsLive /\ [][C40_IgnoredCalls]_vars

C40_Witness ==
  /\ deleted # {}
  /\ cur_obj # NULL
  /\ cur_obj # allocated
  /\ cur_obj \in invocations
  /\ returned = "true"
  /\ DOMAIN name_map = ObjectNames

====
